---- MODULE Spec2Model ----
(***************************************************************************)
(* A model of the hybrid memory controller of src/mem/mem_ctrl.cc: a DRAM  *)
(* cache (direct-mapped tag store) in front of an NVM backing store, with   *)
(* its five work queues, the completion queue, the READ/WRITE bus state     *)
(* machine and the two self-scheduling events.                              *)
(*                                                                          *)
(* Every C++ member function is an operator from a controller state (a      *)
(* record holding every member variable) to the controller state it leaves  *)
(* behind; an action applies one handler to the current state and assigns   *)
(* the result to the variables.  Values the controller obtains from the     *)
(* media interfaces (rank readiness, burst latency, busy, drained) are      *)
(* inputs of the action.  A failed assert() stops the controller: the       *)
(* variable panic names it and no further event runs.                       *)
(***************************************************************************)
EXTENDS Integers, Sequences, FiniteSets, TLC

VARIABLES
    curTick,            \* simulated time
    nextReqEvent,       \* tick nextReqEvent is scheduled for, or NotScheduled
    respondEvent,       \* tick respondEvent is scheduled for, or NotScheduled
    readQueue,          \* per priority: DRAM read packets
    writeQueue,         \* per priority: writes waiting for their tag check
    nvmReadQueue,       \* per priority: NVM read packets
    nvmWriteQueue,      \* per priority: NVM write packets (victims, no-allocate writes)
    dramFillQueue,      \* per priority: DRAM fill packets
    respQueue,          \* completion queue, ordered by readyTime
    totalReadQueueSize, \* QoS::MemCtrl counter behind readQueueFull
    totalWriteQueueSize,\* QoS::MemCtrl counter behind writeQueueFull
    nvmReadQueueSize,
    nvmWriteQueueSize,
    dramFillQueueSize,
    isInWriteQueue,     \* burst-aligned addresses of the packets of writeQueue
    tagStoreDC,         \* the tag store, numEntries entries
    retryRdReq,
    retryWrReq,
    retryNVMRdReq,
    retryNVMWrReq,
    retryDRAMFillReq,
    busState,
    busStateNext,
    writesThisTime,
    nextReqTime,
    drainState,
    writeAllocatePolicy,\* configuration, fixed at construction
    writeBufferSize,    \* configuration: write_buffer_size
    minWritesPerSwitch, \* configuration: min_writes_per_switch
    qos_priorities,     \* configuration: priority buckets per queue
    panic,              \* "none", or the assert that stopped the controller
    reqs,               \* history: every recvTimingReq call, in call order
    respCount,          \* history: accessAndRespond calls per request
    burstHelpers,       \* the BurstHelper of each split read
    retriesSent,        \* history: port.sendRetryReq() calls
    drainsSignalled,    \* history: signalDrainDone() calls
    burstTicks,         \* multiset of command window starts: start -> count
    maxCommandsPerWindow,\* configuration of the interface: the
                        \* max_cmds_per_burst of every verify call
    lastCmd,            \* history: the last verifySingleCmd / verifyMultiCmd
    intfDrained,        \* history: what allIntfDrained() answered last
    lastProbe,          \* history: what the last completion pass classified
    lastPopped,         \* history: readyTime of the last entry popped from respQueue
    lowSwitch,          \* history: the last WRITE branch turned the bus to READ
                        \* below the low threshold, and the write volume has
                        \* not been above the high threshold since
    incoming            \* the requests the requestor has still to submit

vars == << curTick, nextReqEvent, respondEvent, readQueue, writeQueue,
           nvmReadQueue, nvmWriteQueue, dramFillQueue, respQueue,
           totalReadQueueSize, totalWriteQueueSize, nvmReadQueueSize,
           nvmWriteQueueSize, dramFillQueueSize, isInWriteQueue, tagStoreDC,
           retryRdReq, retryWrReq, retryNVMRdReq, retryNVMWrReq,
           retryDRAMFillReq, busState, busStateNext, writesThisTime,
           nextReqTime, drainState, writeAllocatePolicy, writeBufferSize,
           minWritesPerSwitch, qos_priorities, panic, reqs, respCount, burstHelpers, retriesSent,
           drainsSignalled, burstTicks, maxCommandsPerWindow, lastCmd,
           intfDrained, lastProbe, lastPopped, lowSwitch, incoming >>

----------------------------------------------------------------------------
(* Bounds of the model *)

\* recvTimingReq calls in a behaviour whose requests are not scripted
MaxReqs == 2
\* last tick at which an event may start
MaxTime == 3
\* a burst issued at tick t is ready at t+1 .. t+MaxLat
MaxLat == 2
\* the next scheduler pass is due 0 .. MaxGap ticks after a burst
MaxGap == 1
\* a command is asked for at tick 0 .. MaxCmdTick
MaxCmdTick == 5
\* max_multi_cmd_split of a verifyMultiCmd call is 0 .. MaxSplit
MaxSplit == 3
\* the last window start a verify call of the model may record
MaxBurstTick == 8
\* the per-window maximum of a behaviour is 1 .. MaxCmds
MaxCmds == 2
\* drain() is not called any more once MaxDrains drains have been signalled
MaxDrains == 1

(* Configuration of the controller *)

\* dram->bytesPerBurst()
burst_size == 64
\* cache line size, hard-coded in the tag-store arithmetic
lineSize == 64
\* dram_cache_size / 64
numEntries == 2
readBufferSize == 2
maxNvmReadQueueSize == 2
maxNvmWriteQueueSize == 2
maxDramFillQueueSize == 2
write_high_thresh_perc == 85
write_low_thresh_perc == 50
\* p.command_window
commandWindow == 2

NotScheduled == -1
\* gem5's MaxTick: later than every tick of the model
MaxTick == MaxTime + MaxLat + 1

----------------------------------------------------------------------------
(* Arithmetic helpers *)

Min(a, b) == IF a <= b THEN a ELSE b
Max(a, b) == IF a >= b THEN a ELSE b

RECURSIVE Pow2(_)
Pow2(n) == IF n <= 0 THEN 1 ELSE 2 * Pow2(n - 1)

RECURSIVE ceilLog2(_)
\* smallest k with 2^k >= n
ceilLog2(n) == IF n <= 1 THEN 0 ELSE 1 + ceilLog2((n + 1) \div 2)

divCeil(a, b) == (a + b - 1) \div b

\* bits(val, first, last): the bits first .. last of val, both included
bits(val, first, last) == (val \div Pow2(last)) % Pow2(first - last + 1)

\* (addr | (burst_size - 1)) + 1: the first address of the next burst
nextBurstAddr(addr) == ((addr \div burst_size) + 1) * burst_size

burstAlign(addr) == (addr \div burst_size) * burst_size

----------------------------------------------------------------------------
(* Packets and queues *)

\* the addresses that the interfaces' decodePacket maps to their second
\* rank; every other address of the model is in the first rank
SecondRank == { 8 * burst_size }

\* A MemPacket as the media interface's decodePacket builds it: the burst
\* helper pointer is NULL and the two probe flags are false.  readyTime is
\* only read after doBurstAccess has set it.
decodePacket(req, addr, size, is_read, is_dram, qos) ==
    [ req |-> req, addr |-> addr, size |-> size, isRead |-> is_read,
      isDram |-> is_dram, read_before_write |-> FALSE,
      is_waiting_for_nvm_read |-> FALSE, readyTime |-> 0,
      burstHelper |-> FALSE, qos |-> qos,
      rank |-> IF addr \in SecondRank THEN 1 ELSE 0 ]

\* a queue resized to n priority buckets
EmptyQueue(n) == [p \in 0 .. (n - 1) |-> << >>]

RECURSIVE SumLen(_, _)
SumLen(q, ps) ==
    IF ps = {} THEN 0
    ELSE LET p == CHOOSE x \in ps : TRUE
         IN Len(q[p]) + SumLen(q, ps \ {p})

\* number of packets a queue holds, over all priority buckets
QSize(q) == SumLen(q, DOMAIN q)

push_back(q, pkt) == [q EXCEPT ![pkt.qos] = Append(@, pkt)]

RemoveAt(seq, i) == SubSeq(seq, 1, i - 1) \o SubSeq(seq, i + 1, Len(seq))

erase(q, prio, i) == [q EXCEPT ![prio] = RemoveAt(@, i)]

----------------------------------------------------------------------------
(* The controller state as one record, and its assignment to the variables *)

State ==
    [ curTick |-> curTick, nextReqEvent |-> nextReqEvent,
      respondEvent |-> respondEvent, readQueue |-> readQueue,
      writeQueue |-> writeQueue, nvmReadQueue |-> nvmReadQueue,
      nvmWriteQueue |-> nvmWriteQueue, dramFillQueue |-> dramFillQueue,
      respQueue |-> respQueue, totalReadQueueSize |-> totalReadQueueSize,
      totalWriteQueueSize |-> totalWriteQueueSize,
      nvmReadQueueSize |-> nvmReadQueueSize,
      nvmWriteQueueSize |-> nvmWriteQueueSize,
      dramFillQueueSize |-> dramFillQueueSize,
      isInWriteQueue |-> isInWriteQueue, tagStoreDC |-> tagStoreDC,
      retryRdReq |-> retryRdReq, retryWrReq |-> retryWrReq,
      retryNVMRdReq |-> retryNVMRdReq, retryNVMWrReq |-> retryNVMWrReq,
      retryDRAMFillReq |-> retryDRAMFillReq,
      retryRespEvent |-> FALSE, dramHit |-> FALSE,
      busState |-> busState, busStateNext |-> busStateNext,
      writesThisTime |-> writesThisTime, nextReqTime |-> nextReqTime,
      drainState |-> drainState, writeAllocatePolicy |-> writeAllocatePolicy,
      writeBufferSize |-> writeBufferSize,
      minWritesPerSwitch |-> minWritesPerSwitch,
      qos_priorities |-> qos_priorities,
      panic |-> panic, reqs |-> reqs, respCount |-> respCount,
      burstHelpers |-> burstHelpers, retriesSent |-> retriesSent,
      drainsSignalled |-> drainsSignalled, burstTicks |-> burstTicks,
      maxCommandsPerWindow |-> maxCommandsPerWindow, lastCmd |-> lastCmd,
      intfDrained |-> intfDrained, lastProbe |-> lastProbe,
      lastPopped |-> lastPopped, lowSwitch |-> lowSwitch,
      incoming |-> incoming ]

\* The handler's result becomes the next state.  A handler that an assert
\* stopped leaves the state as it was, with the assert's name in panic.
Assign(s) ==
    IF s.panic # "none"
    THEN /\ panic' = s.panic
         /\ UNCHANGED << curTick, nextReqEvent, respondEvent, readQueue,
               writeQueue, nvmReadQueue, nvmWriteQueue, dramFillQueue,
               respQueue, totalReadQueueSize, totalWriteQueueSize,
               nvmReadQueueSize, nvmWriteQueueSize, dramFillQueueSize,
               isInWriteQueue, tagStoreDC, retryRdReq, retryWrReq,
               retryNVMRdReq, retryNVMWrReq, retryDRAMFillReq, busState,
               busStateNext, writesThisTime, nextReqTime, drainState,
               writeAllocatePolicy, writeBufferSize, minWritesPerSwitch,
               qos_priorities, reqs,
               respCount, burstHelpers, retriesSent, drainsSignalled,
               burstTicks, maxCommandsPerWindow, lastCmd, intfDrained,
               lastProbe, lastPopped, lowSwitch, incoming >>
    ELSE /\ curTick' = s.curTick
         /\ nextReqEvent' = s.nextReqEvent
         /\ respondEvent' = s.respondEvent
         /\ readQueue' = s.readQueue
         /\ writeQueue' = s.writeQueue
         /\ nvmReadQueue' = s.nvmReadQueue
         /\ nvmWriteQueue' = s.nvmWriteQueue
         /\ dramFillQueue' = s.dramFillQueue
         /\ respQueue' = s.respQueue
         /\ totalReadQueueSize' = s.totalReadQueueSize
         /\ totalWriteQueueSize' = s.totalWriteQueueSize
         /\ nvmReadQueueSize' = s.nvmReadQueueSize
         /\ nvmWriteQueueSize' = s.nvmWriteQueueSize
         /\ dramFillQueueSize' = s.dramFillQueueSize
         /\ isInWriteQueue' = s.isInWriteQueue
         /\ tagStoreDC' = s.tagStoreDC
         /\ retryRdReq' = s.retryRdReq
         /\ retryWrReq' = s.retryWrReq
         /\ retryNVMRdReq' = s.retryNVMRdReq
         /\ retryNVMWrReq' = s.retryNVMWrReq
         /\ retryDRAMFillReq' = s.retryDRAMFillReq
         /\ busState' = s.busState
         /\ busStateNext' = s.busStateNext
         /\ writesThisTime' = s.writesThisTime
         /\ nextReqTime' = s.nextReqTime
         /\ drainState' = s.drainState
         /\ writeAllocatePolicy' = s.writeAllocatePolicy
         /\ writeBufferSize' = s.writeBufferSize
         /\ minWritesPerSwitch' = s.minWritesPerSwitch
         /\ qos_priorities' = s.qos_priorities
         /\ panic' = s.panic
         /\ reqs' = s.reqs
         /\ respCount' = s.respCount
         /\ burstHelpers' = s.burstHelpers
         /\ retriesSent' = s.retriesSent
         /\ drainsSignalled' = s.drainsSignalled
         /\ burstTicks' = s.burstTicks
         /\ maxCommandsPerWindow' = s.maxCommandsPerWindow
         /\ lastCmd' = s.lastCmd
         /\ intfDrained' = s.intfDrained
         /\ lastProbe' = s.lastProbe
         /\ lastPopped' = s.lastPopped
         /\ lowSwitch' =
               /\ s.lowSwitch
               /\ ~( 100 * (s.totalWriteQueueSize + s.nvmWriteQueueSize
                              + s.dramFillQueueSize)
                       > s.writeBufferSize * write_high_thresh_perc )
         /\ incoming' = s.incoming

\* assert(cond): the first failed assert of a handler is the one recorded
Require(s, cond, name) ==
    IF s.panic = "none" /\ ~cond THEN [s EXCEPT !.panic = name] ELSE s

InvalidEntry ==
    [tag |-> 0, valid_line |-> FALSE, dirty_line |-> FALSE, nvmAddr |-> 0]

NoHelper == [burstCount |-> 0, burstsServiced |-> 0, live |-> FALSE]
NoCmd ==
    [ kind |-> "none", cmd_tick |-> 0, split |-> 0, cmd_at |-> 0,
      first |-> 0, second |-> 0 ]
NoProbe ==
    [ kind |-> "none", addr |-> 0, index |-> 0, tag |-> 0,
      entry |-> InvalidEntry, class |-> "none", handler |-> "none",
      req |-> 0, isWrite |-> FALSE ]

\* The state the constructor leaves, for a write-allocate policy and a
\* number of priorities; script is what the requestor is going to submit
InitState(wa, np, script) ==
    [ curTick |-> 0, nextReqEvent |-> NotScheduled,
      respondEvent |-> NotScheduled, readQueue |-> EmptyQueue(np),
      writeQueue |-> EmptyQueue(np), nvmReadQueue |-> EmptyQueue(np),
      nvmWriteQueue |-> EmptyQueue(np), dramFillQueue |-> EmptyQueue(np),
      respQueue |-> << >>, totalReadQueueSize |-> 0,
      totalWriteQueueSize |-> 0, nvmReadQueueSize |-> 0,
      nvmWriteQueueSize |-> 0, dramFillQueueSize |-> 0,
      isInWriteQueue |-> {},
      tagStoreDC |-> [i \in 0 .. (numEntries - 1) |-> InvalidEntry],
      retryRdReq |-> FALSE, retryWrReq |-> FALSE, retryNVMRdReq |-> FALSE,
      retryNVMWrReq |-> FALSE, retryDRAMFillReq |-> FALSE,
      retryRespEvent |-> FALSE, dramHit |-> FALSE,
      busState |-> "READ", busStateNext |-> "READ", writesThisTime |-> 0,
      nextReqTime |-> 0, drainState |-> "Running",
      writeAllocatePolicy |-> wa, writeBufferSize |-> 2,
      minWritesPerSwitch |-> 1,
      qos_priorities |-> np, panic |-> "none", reqs |-> << >>,
      respCount |-> << >>, burstHelpers |-> << >>, retriesSent |-> 0,
      drainsSignalled |-> 0, burstTicks |-> << >>,
      maxCommandsPerWindow |-> 1, lastCmd |-> NoCmd,
      intfDrained |-> FALSE,
      lastProbe |-> NoProbe, lastPopped |-> 0,
      lowSwitch |-> FALSE, incoming |-> script ]

InitFrom(s) ==
    /\ curTick = s.curTick
    /\ nextReqEvent = s.nextReqEvent
    /\ respondEvent = s.respondEvent
    /\ readQueue = s.readQueue
    /\ writeQueue = s.writeQueue
    /\ nvmReadQueue = s.nvmReadQueue
    /\ nvmWriteQueue = s.nvmWriteQueue
    /\ dramFillQueue = s.dramFillQueue
    /\ respQueue = s.respQueue
    /\ totalReadQueueSize = s.totalReadQueueSize
    /\ totalWriteQueueSize = s.totalWriteQueueSize
    /\ nvmReadQueueSize = s.nvmReadQueueSize
    /\ nvmWriteQueueSize = s.nvmWriteQueueSize
    /\ dramFillQueueSize = s.dramFillQueueSize
    /\ isInWriteQueue = s.isInWriteQueue
    /\ tagStoreDC = s.tagStoreDC
    /\ retryRdReq = s.retryRdReq
    /\ retryWrReq = s.retryWrReq
    /\ retryNVMRdReq = s.retryNVMRdReq
    /\ retryNVMWrReq = s.retryNVMWrReq
    /\ retryDRAMFillReq = s.retryDRAMFillReq
    /\ busState = s.busState
    /\ busStateNext = s.busStateNext
    /\ writesThisTime = s.writesThisTime
    /\ nextReqTime = s.nextReqTime
    /\ drainState = s.drainState
    /\ writeAllocatePolicy = s.writeAllocatePolicy
    /\ writeBufferSize = s.writeBufferSize
    /\ minWritesPerSwitch = s.minWritesPerSwitch
    /\ qos_priorities = s.qos_priorities
    /\ panic = s.panic
    /\ reqs = s.reqs
    /\ respCount = s.respCount
    /\ burstHelpers = s.burstHelpers
    /\ retriesSent = s.retriesSent
    /\ drainsSignalled = s.drainsSignalled
    /\ burstTicks = s.burstTicks
    /\ maxCommandsPerWindow = s.maxCommandsPerWindow
    /\ lastCmd = s.lastCmd
    /\ intfDrained = s.intfDrained
    /\ lastProbe = s.lastProbe
    /\ lastPopped = s.lastPopped
    /\ lowSwitch = s.lowSwitch
    /\ incoming = s.incoming

----------------------------------------------------------------------------
(* Small member functions *)

\* schedule(nextReqEvent, t) behind its "if (!nextReqEvent.scheduled())"
scheduleNextReq(s, t) ==
    IF s.nextReqEvent = NotScheduled THEN [s EXCEPT !.nextReqEvent = t] ELSE s

\* schedule(respondEvent, t) behind its "if (!respondEvent.scheduled())"
scheduleRespond(s, t) ==
    IF s.respondEvent = NotScheduled THEN [s EXCEPT !.respondEvent = t] ELSE s

\* QoS::MemCtrl::logRequest: queue 0 is the read queue, 1 the write queue;
\* the other three queues keep their own counters
logRequest(s, queue) ==
    IF queue = 0
    THEN [s EXCEPT !.totalReadQueueSize = @ + 1]
    ELSE IF queue = 1
         THEN [s EXCEPT !.totalWriteQueueSize = @ + 1]
         ELSE s

\* QoS::MemCtrl::logResponse
logResponse(s, queue) ==
    IF queue = 0
    THEN [s EXCEPT !.totalReadQueueSize = @ - 1]
    ELSE IF queue = 1
         THEN [s EXCEPT !.totalWriteQueueSize = @ - 1]
         ELSE s

\* readQueueFull without the completion queue in the occupancy
readQueueFull_noRespQueue(s, neededEntries) ==
    s.totalReadQueueSize + neededEntries > readBufferSize

readQueueFull(s, neededEntries) ==
    s.totalReadQueueSize + Len(s.respQueue) + neededEntries > readBufferSize

\* writeQueueFull with >= for >
writeQueueFull_offByOne(s, neededEntries) ==
    s.totalWriteQueueSize + neededEntries >= s.writeBufferSize

\* writeQueueFull counting the backing writes as well
writeQueueFull_allWrites(s, neededEntries) ==
    s.totalWriteQueueSize + s.nvmWriteQueueSize + s.dramFillQueueSize
        + neededEntries > s.writeBufferSize

writeQueueFull(s, neededEntries) ==
    s.totalWriteQueueSize + neededEntries > s.writeBufferSize

nvmWriteQueueFull(s, neededEntries) ==
    s.nvmWriteQueueSize + neededEntries > maxNvmWriteQueueSize

nvmReadQueueFull(s, neededEntries) ==
    s.nvmReadQueueSize + neededEntries > maxNvmReadQueueSize

\* dramFillQueueFull of a fill queue without a limit
dramFillQueueFull_never(s, neededEntries) == FALSE

dramFillQueueFull(s, neededEntries) ==
    s.dramFillQueueSize + neededEntries > maxDramFillQueueSize

\* accessAndRespond: the request is finalized (once more)
accessAndRespond(s, req) ==
    [s EXCEPT !.respCount[req] = @ + 1]

----------------------------------------------------------------------------
(* Request admission *)

\* subsumes with < for the first <=
subsumes_strict(p, addr, size) ==
    /\ p.addr < addr
    /\ addr + size <= p.addr + p.size
    /\ ~p.is_waiting_for_nvm_read

\* "the read is subsumed in the write queue packet we are looking at"
subsumes(p, addr, size) ==
    /\ p.addr <= addr
    /\ addr + size <= p.addr + p.size
    /\ ~p.is_waiting_for_nvm_read

\* One forwarding scan of addToReadQueue over a queue: the break leaves the
\* scan of one priority bucket only, so every bucket holding a subsuming
\* packet counts once.
servicedBy(q, addr, size) ==
    Cardinality({ pr \in DOMAIN q :
                    \E i \in 1 .. Len(q[pr]) : subsumes(q[pr][i], addr, size) })

NoneServiced ==
    [ pktsServicedByWrQ |-> 0, pktsServicedByDRAMFillQ |-> 0,
      pktsServicedByNVMWrQ |-> 0, burst_helper |-> FALSE ]

RECURSIVE addToReadQueueLoop(_, _, _, _, _)
\* the for loop of addToReadQueue from its iteration cnt on; loc holds the
\* function's local counters
addToReadQueueLoop(s, id, cnt, addr, loc) ==
    LET r == s.reqs[id] IN
    IF cnt >= r.pkt_count
    THEN [s |-> s, loc |-> loc]
    ELSE
      LET size == Min(nextBurstAddr(addr), r.addr + r.size) - addr
          burst_addr == burstAlign(addr)
          nWr == IF burst_addr \in s.isInWriteQueue
                 THEN servicedBy(s.writeQueue, addr, size)
                 ELSE 0
          nFill == servicedBy(s.dramFillQueue, addr, size)
          nNvm == servicedBy(s.nvmWriteQueue, addr, size)
          found == nWr > 0 \/ nFill > 0 \/ nNvm > 0
          mkHelper == ~found /\ r.pkt_count > 1 /\ ~loc.burst_helper
          loc1 == [ pktsServicedByWrQ |-> loc.pktsServicedByWrQ + nWr,
                    pktsServicedByDRAMFillQ |->
                        loc.pktsServicedByDRAMFillQ + nFill,
                    pktsServicedByNVMWrQ |-> loc.pktsServicedByNVMWrQ + nNvm,
                    burst_helper |-> loc.burst_helper \/ mkHelper ]
          s1 == IF mkHelper
                THEN [s EXCEPT !.burstHelpers[id] =
                        [ burstCount |-> r.pkt_count, burstsServiced |-> 0,
                          live |-> TRUE ]]
                ELSE s
          mem_pkt == [decodePacket(id, addr, size, TRUE, TRUE, r.qos)
                        EXCEPT !.burstHelper = loc1.burst_helper]
          s2 == Require(s1, ~readQueueFull(s1, 1), "addToReadQueue_full")
          s3 == IF found
                THEN s1
                ELSE logRequest(
                       [s2 EXCEPT !.readQueue = push_back(@, mem_pkt)], 0)
      IN addToReadQueueLoop(s3, id, cnt + 1, nextBurstAddr(addr), loc1)

\* addToReadQueue behind its for loop; done holds the state and the local
\* counters the loop left
addToReadQueueEnd(done, id) ==
    LET r == done.s.reqs[id]
        s1 == done.s
        loc == done.loc
    IN IF \/ loc.pktsServicedByWrQ = r.pkt_count
          \/ loc.pktsServicedByDRAMFillQ = r.pkt_count
          \/ loc.pktsServicedByNVMWrQ = r.pkt_count
       THEN \* all packets are serviced by one write-side queue
            accessAndRespond(s1, id)
       ELSE LET s2 == IF loc.burst_helper
                      THEN [s1 EXCEPT !.burstHelpers[id].burstsServiced =
                                          loc.pktsServicedByWrQ]
                      ELSE s1
            IN scheduleNextReq(s2, s2.curTick)

addToReadQueue(s, id) ==
    addToReadQueueEnd(
        addToReadQueueLoop(s, id, 0, s.reqs[id].addr, NoneServiced), id)

\* the write that is never merged
merged_never(s, addr) == FALSE

\* lines 561-562: the burst is merged with a packet of writeQueue
merged(s, addr) == burstAlign(addr) \in s.isInWriteQueue

RECURSIVE addToWriteQueueLoop(_, _, _, _)
addToWriteQueueLoop(s, id, cnt, addr) ==
    LET r == s.reqs[id] IN
    IF cnt >= r.pkt_count
    THEN s
    ELSE
      LET size == Min(nextBurstAddr(addr), r.addr + r.size) - addr
          mem_pkt == [decodePacket(id, addr, size, TRUE, TRUE, r.qos)
                        EXCEPT !.read_before_write = TRUE]
          s1 == Require(s, s.totalWriteQueueSize < s.writeBufferSize,
                        "addToWriteQueue_full")
          s2 == logRequest(
                  [s1 EXCEPT !.writeQueue = push_back(@, mem_pkt),
                             !.isInWriteQueue = @ \cup {burstAlign(addr)}],
                  1)
          s3 == Require(s2,
                        s2.totalWriteQueueSize = Cardinality(s2.isInWriteQueue),
                        "addToWriteQueue_isInWriteQueue")
      IN addToWriteQueueLoop(IF merged(s, addr) THEN s ELSE s3, id, cnt + 1,
                             nextBurstAddr(addr))

addToWriteQueue(s, id) ==
    LET s1 == addToWriteQueueLoop(s, id, 0, s.reqs[id].addr)
    IN scheduleNextReq(s1, s1.curTick)

\* recvTimingReq for the request r = [addr, size, isWrite, qos, needsResponse];
\* the call and its return value are appended to reqs
recvTimingReq(s, r) ==
    LET offset == r.addr % burst_size
        pkt_count == divCeil(offset + r.size, burst_size)
        id == Len(s.reqs) + 1
        call(ok) == [ addr |-> r.addr, size |-> r.size,
                      isWrite |-> r.isWrite, qos |-> r.qos,
                      needsResponse |-> r.needsResponse,
                      pkt_count |-> pkt_count, accepted |-> ok ]
        seen(ok) == [s EXCEPT !.reqs = Append(@, call(ok)),
                              !.respCount = Append(@, 0),
                              !.burstHelpers = Append(@, NoHelper)]
        refused == seen(FALSE)
        taken == seen(TRUE)
    IN IF r.isWrite
       THEN IF writeQueueFull(s, pkt_count)
            THEN [refused EXCEPT !.retryWrReq = TRUE]
            ELSE addToWriteQueue(taken, id)
       ELSE IF readQueueFull(s, pkt_count)
            THEN [refused EXCEPT !.retryRdReq = TRUE]
            ELSE addToReadQueue(taken, id)

----------------------------------------------------------------------------
(* Tag store *)

\* the index the controller computes for an address (processRespondEvent,
\* addToDRAMFillQueue and createVictimMemPkt all use this expression)
tagIndex(addr) ==
    bits(addr, ceilLog2(lineSize) + ceilLog2(numEntries), ceilLog2(lineSize))

returnTag(request_addr) ==
    LET index_bits == ceilLog2(numEntries)
        block_bits == ceilLog2(lineSize)
    IN \* bits(request_addr, 63, k) of a 64-bit address: request_addr >> k
       request_addr \div Pow2(index_bits + block_bits)

\* tagStoreDC[index] as an rvalue.  The vector holds numEntries entries; an
\* index beyond it reads whatever the heap holds there (heap).
tagLoad(s, index, heap) ==
    IF index < numEntries THEN s.tagStoreDC[index] ELSE heap

\* the fill that marks its line dirty and leaves the valid bit as it was
tagStore_dirtyOnly(s, index, addr) ==
    IF index < numEntries
    THEN [s EXCEPT !.tagStoreDC[index] =
            [ tag |-> returnTag(addr), valid_line |-> @.valid_line,
              dirty_line |-> TRUE, nvmAddr |-> addr ]]
    ELSE s

\* The four assignments of addToDRAMFillQueue to tagStoreDC[index].  Beyond
\* the vector they land outside the tag store.
tagStore(s, index, addr) ==
    IF index < numEntries
    THEN [s EXCEPT !.tagStoreDC[index] =
            [ tag |-> returnTag(addr), valid_line |-> TRUE,
              dirty_line |-> TRUE, nvmAddr |-> addr ]]
    ELSE s

----------------------------------------------------------------------------
(* Queue router *)

\* addToDRAMFillQueue that leaves dramFillQueueSize alone
addToDRAMFillQueue_noCount(s, mem_pkt, is_waiting_for_nvm_read) ==
    LET s1 == Require(s, ~dramFillQueueFull(s, 1), "addToDRAMFillQueue_full")
        fill_pkt == [decodePacket(mem_pkt.req, mem_pkt.addr, mem_pkt.size,
                                  FALSE, TRUE, mem_pkt.qos)
                       EXCEPT !.readyTime = MaxTick,
                              !.is_waiting_for_nvm_read =
                                  is_waiting_for_nvm_read]
        s2 == logRequest(
                [s1 EXCEPT !.dramFillQueue = push_back(@, fill_pkt)], 4)
        s3 == tagStore(s2, tagIndex(fill_pkt.addr), fill_pkt.addr)
    IN scheduleNextReq(s3, s3.curTick)

addToDRAMFillQueue(s, mem_pkt, is_waiting_for_nvm_read) ==
    LET s1 == Require(s, ~dramFillQueueFull(s, 1), "addToDRAMFillQueue_full")
        fill_pkt == [decodePacket(mem_pkt.req, mem_pkt.addr, mem_pkt.size,
                                  FALSE, TRUE, mem_pkt.qos)
                       EXCEPT !.readyTime = MaxTick,
                              !.is_waiting_for_nvm_read =
                                  is_waiting_for_nvm_read]
        s2 == logRequest(
                [s1 EXCEPT !.dramFillQueue = push_back(@, fill_pkt),
                           !.dramFillQueueSize = @ + 1], 4)
        s3 == tagStore(s2, tagIndex(fill_pkt.addr), fill_pkt.addr)
    IN scheduleNextReq(s3, s3.curTick)

RECURSIVE updateFillFrom(_, _, _)
\* the outer loop of updateMemPktInDRAMFillQueue from bucket pr downwards
updateFillFrom(s, mem_pkt, pr) ==
    IF pr < 0
    THEN Require(s, FALSE, "updateMemPktInDRAMFillQueue_found")
    ELSE
      LET queue == s.dramFillQueue[pr]
          hits == { i \in 1 .. Len(queue) :
                      /\ queue[i].addr = mem_pkt.addr
                      /\ queue[i].is_waiting_for_nvm_read }
      IN IF Len(queue) = 0
         THEN Require(s, FALSE, "updateMemPktInDRAMFillQueue_size")
         ELSE IF hits # {}
              THEN LET i == CHOOSE x \in hits : \A y \in hits : x <= y
                   IN [s EXCEPT !.dramFillQueue[pr][i].is_waiting_for_nvm_read
                                   = FALSE]
              ELSE updateFillFrom(s, mem_pkt, pr - 1)

updateMemPktInDRAMFillQueue(s, mem_pkt) ==
    updateFillFrom(s, mem_pkt, s.qos_priorities - 1)

addToNVMReadQueue(s, mem_pkt) ==
    LET s1 == Require(s, ~nvmReadQueueFull(s, 1), "addToNVMReadQueue_full")
        nvm_pkt == [decodePacket(mem_pkt.req, mem_pkt.addr, mem_pkt.size,
                                 TRUE, FALSE, mem_pkt.qos)
                      EXCEPT !.readyTime = MaxTick]
        s2 == logRequest(
                [s1 EXCEPT !.nvmReadQueue = push_back(@, nvm_pkt),
                           !.nvmReadQueueSize = @ + 1], 2)
    IN scheduleNextReq(s2, s2.curTick)

addToNVMWriteQueue(s, mem_pkt) ==
    LET s1 == Require(s, ~nvmWriteQueueFull(s, 1), "addToNVMWriteQueue_full")
        nvm_pkt == [decodePacket(mem_pkt.req, mem_pkt.addr, mem_pkt.size,
                                 FALSE, FALSE, mem_pkt.qos)
                      EXCEPT !.readyTime = MaxTick]
        s2 == logRequest(
                [s1 EXCEPT !.nvmWriteQueue = push_back(@, nvm_pkt),
                           !.nvmWriteQueueSize = @ + 1], 3)
    IN scheduleNextReq(s2, s2.curTick)

\* handleHit that does not record the hit
handleHit_noHit(s, mem_pkt) == [s EXCEPT !.dramHit = FALSE]

handleHit(s, mem_pkt) ==
    IF mem_pkt.isRead /\ ~mem_pkt.read_before_write
    THEN [s EXCEPT !.dramHit = TRUE]
    ELSE IF mem_pkt.isRead /\ mem_pkt.read_before_write
         THEN IF ~dramFillQueueFull(s, 1)
              THEN [addToDRAMFillQueue(s, mem_pkt, FALSE)
                      EXCEPT !.dramHit = TRUE]
              ELSE [s EXCEPT !.retryDRAMFillReq = TRUE,
                             !.retryRespEvent = TRUE,
                             !.dramHit = FALSE]
         ELSE s

\* the else branch shared by the paired backing-read and fill enqueues
retryReadAndFill(s) ==
    [s EXCEPT !.retryNVMRdReq = @ \/ nvmReadQueueFull(s, 1),
              !.retryDRAMFillReq = @ \/ dramFillQueueFull(s, 1),
              !.retryRespEvent = TRUE]

\* handleCleanMiss that never allocates on a write and checks no queue
handleCleanMiss_writeAround(s0, mem_pkt) ==
    IF mem_pkt.read_before_write
    THEN addToNVMWriteQueue(s0, mem_pkt)
    ELSE addToDRAMFillQueue(addToNVMReadQueue(s0, mem_pkt), mem_pkt, TRUE)

handleCleanMiss(s0, mem_pkt) ==
    LET s == [s0 EXCEPT !.dramHit = FALSE] IN
    IF mem_pkt.isRead /\ ~mem_pkt.read_before_write
    THEN IF ~nvmReadQueueFull(s, 1) /\ ~dramFillQueueFull(s, 1)
         THEN addToDRAMFillQueue(addToNVMReadQueue(s, mem_pkt), mem_pkt, TRUE)
         ELSE retryReadAndFill(s)
    ELSE \* write packet
         IF ~s.writeAllocatePolicy
         THEN IF ~nvmWriteQueueFull(s, 1)
              THEN addToNVMWriteQueue(s, mem_pkt)
              ELSE [s EXCEPT !.retryNVMWrReq = TRUE,
                             !.retryRespEvent = TRUE]
         ELSE IF ~nvmReadQueueFull(s, 1) /\ ~dramFillQueueFull(s, 1)
              THEN addToDRAMFillQueue(addToNVMReadQueue(s, mem_pkt),
                                      mem_pkt, TRUE)
              ELSE retryReadAndFill(s)

createVictimMemPkt(s, mem_pkt, heap) ==
    LET index == tagIndex(mem_pkt.addr)
        base_addr == tagLoad(s, index, heap).nvmAddr
        addr == base_addr
        size == Min(nextBurstAddr(addr), base_addr + mem_pkt.size) - addr
    IN decodePacket(mem_pkt.req, addr, size, FALSE, FALSE, mem_pkt.qos)

\* the else branch shared by the three-queue enqueues of handleDirtyMiss
retryAllThree(s) ==
    [s EXCEPT !.retryNVMRdReq = @ \/ nvmReadQueueFull(s, 1),
              !.retryNVMWrReq = @ \/ nvmWriteQueueFull(s, 1),
              !.retryDRAMFillReq = @ \/ dramFillQueueFull(s, 1),
              !.retryRespEvent = TRUE]

handleDirtyMiss(s0, mem_pkt, heap) ==
    LET s == [s0 EXCEPT !.dramHit = FALSE]
        victim == createVictimMemPkt(s, mem_pkt, heap)
        room == /\ ~nvmReadQueueFull(s, 1)
                /\ ~nvmWriteQueueFull(s, 1)
                /\ ~dramFillQueueFull(s, 1)
    IN
    IF mem_pkt.isRead /\ ~mem_pkt.read_before_write
    THEN IF room
         THEN addToDRAMFillQueue(
                addToNVMReadQueue(addToNVMWriteQueue(s, victim), mem_pkt),
                mem_pkt, TRUE)
         ELSE retryAllThree(s)
    ELSE \* write packet
         IF ~s.writeAllocatePolicy
         THEN IF ~nvmWriteQueueFull(s, 1)
              THEN addToNVMWriteQueue(s, victim)
              ELSE [s EXCEPT !.retryNVMWrReq = TRUE,
                             !.retryRespEvent = TRUE]
         ELSE IF room
              THEN addToDRAMFillQueue(
                     addToNVMWriteQueue(addToNVMReadQueue(s, mem_pkt), victim),
                     mem_pkt, TRUE)
              ELSE retryAllThree(s)

----------------------------------------------------------------------------
(* Response pipeline *)

\* the if / else-if chain of processRespondEvent over the tag entry it loaded
classify(entry, currTag) ==
    IF ~entry.valid_line
    THEN "Invalid"
    ELSE IF entry.tag = currTag /\ entry.valid_line
         THEN "Hit"
         ELSE IF entry.tag # currTag /\ entry.valid_line /\ ~entry.dirty_line
              THEN "CleanMiss"
              ELSE IF /\ entry.tag # currTag
                      /\ entry.valid_line
                      /\ entry.dirty_line
                   THEN "DirtyMiss"
                   ELSE "None"

\* signalDrainDone(): the drain manager is told and the state is Drained
signalDrainDone(s) ==
    [s EXCEPT !.drainState = "Drained", !.drainsSignalled = @ + 1]

\* the retry that never reaches the port
sendRetryReq_silent(s) == s

\* port.sendRetryReq()
sendRetryReq(s) == [s EXCEPT !.retriesSent = @ + 1]

\* the tag check of processRespondEvent for a DRAM packet
checkTag(s, mem_pkt, heap) ==
    LET index == tagIndex(mem_pkt.addr)
        currTag == returnTag(mem_pkt.addr)
        entry == tagLoad(s, index, heap)
        class == classify(entry, currTag)
        s1 == IF class = "Invalid" THEN handleCleanMiss(s, mem_pkt)
              ELSE IF class = "Hit" THEN handleHit(s, mem_pkt)
              ELSE IF class = "CleanMiss" THEN handleCleanMiss(s, mem_pkt)
              ELSE IF class = "DirtyMiss"
                   THEN handleDirtyMiss(s, mem_pkt, heap)
                   ELSE s
        handler == IF class = "Invalid" THEN "handleCleanMiss"
                   ELSE IF class = "Hit" THEN "handleHit"
                   ELSE IF class = "CleanMiss" THEN "handleCleanMiss"
                   ELSE IF class = "DirtyMiss" THEN "handleDirtyMiss"
                   ELSE "none"
    IN [s1 EXCEPT !.lastProbe =
          [ kind |-> "dram", addr |-> mem_pkt.addr, index |-> index,
            tag |-> currTag, entry |-> entry, class |-> class,
            handler |-> handler, req |-> mem_pkt.req,
            isWrite |-> mem_pkt.read_before_write ]]

\* lines 1190-1219: the response to the requestor of a read
respondToRead(s, mem_pkt) ==
    LET req == mem_pkt.req
        fromData == (mem_pkt.isDram /\ s.dramHit) \/ ~mem_pkt.isDram
    IN
    IF s.reqs[req].isWrite
    THEN s
    ELSE IF mem_pkt.burstHelper
         THEN LET s1 == Require(s, s.burstHelpers[req].live,
                                "burstHelper_deleted")
                  s2 == [s1 EXCEPT !.burstHelpers[req].burstsServiced = @ + 1]
                  h == s2.burstHelpers[req]
              IN IF h.burstsServiced = h.burstCount /\ fromData
                 THEN [accessAndRespond(s2, req)
                         EXCEPT !.burstHelpers[req].live = FALSE]
                 ELSE s2
         ELSE IF fromData THEN accessAndRespond(s, req) ELSE s

\* lines 1239-1269: pop the completion queue and what follows
popAndReschedule(s, mem_pkt, drained) ==
    LET s1 == [s EXCEPT !.respQueue = Tail(@),
                        !.lastPopped = Head(s.respQueue).readyTime]
        s2 == IF s1.respQueue # << >>
              THEN LET t == Head(s1.respQueue).readyTime
                       a == Require(s1, t >= s1.curTick,
                                    "processRespondEvent_readyTime")
                       b == Require(a, a.respondEvent = NotScheduled,
                                    "processRespondEvent_scheduled")
                   IN [b EXCEPT !.respondEvent = t]
              ELSE IF /\ s1.drainState = "Draining"
                      /\ s1.totalWriteQueueSize = 0
                      /\ s1.totalReadQueueSize = 0
                      /\ drained
                   THEN signalDrainDone(s1)
                   ELSE s1
        s3 == IF s2.retryRdReq
              THEN sendRetryReq([s2 EXCEPT !.retryRdReq = FALSE])
              ELSE s2
    IN [s3 EXCEPT !.dramHit = FALSE]

\* lines 1174-1269: a handler that found its queues full has the pass run
\* again; otherwise the read is answered and the completion queue popped
respondOrRetry(s, mem_pkt, drained) ==
    IF s.retryRespEvent
    THEN [scheduleNextReq(s, s.curTick)
            EXCEPT !.retryRespEvent = FALSE, !.dramHit = FALSE]
    ELSE popAndReschedule(respondToRead(s, mem_pkt), mem_pkt, drained)

\* processRespondEvent with the media's answers in: heap is what the memory
\* beyond the tag store holds, drained is allIntfDrained()
processRespondEvent(s0, in) ==
    LET s == [s0 EXCEPT !.respondEvent = NotScheduled, !.dramHit = FALSE] IN
    IF s.respQueue = << >>
    THEN Require(s, FALSE, "processRespondEvent_empty")
    ELSE
      LET mem_pkt == Head(s.respQueue)
          s1 == IF mem_pkt.isDram
                THEN checkTag(s, mem_pkt, in.heap)
                ELSE [updateMemPktInDRAMFillQueue(
                        Require(s, mem_pkt.isRead, "processRespondEvent_isRead"),
                        mem_pkt)
                        EXCEPT !.lastProbe =
                          [ kind |-> "nvm", addr |-> mem_pkt.addr,
                            index |-> 0, tag |-> 0, entry |-> InvalidEntry,
                            class |-> "none", handler |-> "none",
                            req |-> mem_pkt.req, isWrite |-> FALSE ]]
      IN respondOrRetry(s1, mem_pkt, in.drained)

----------------------------------------------------------------------------
(* Bus scheduler *)

\* mem_sched_policy
memSchedPolicy == "frfcfs"

\* burstReady() of the packet's interface: rdy names the ranks of the
\* interfaces that can take a burst now
rankName(pkt) ==
    IF pkt.isDram
    THEN (IF pkt.rank = 0 THEN "dram" ELSE "dram1")
    ELSE (IF pkt.rank = 0 THEN "nvm" ELSE "nvm1")

packetReady(pkt, rdy) == rankName(pkt) \in rdy

\* chooseNextDC on one priority bucket: the position of the packet to issue,
\* or 0 for queue.end().  Under frfcfs the interface picks among the ready
\* packets by its row-buffer state (pick).
chooseNextDC(queue, rdy, pick) ==
    LET ready == { i \in 1 .. Len(queue) : packetReady(queue[i], rdy) }
        first == CHOOSE i \in ready : \A j \in ready : i <= j
    IN IF Len(queue) = 0 \/ ready = {}
       THEN 0
       ELSE IF Len(queue) = 1
            THEN 1
            ELSE IF memSchedPolicy = "fcfs"
                 THEN first
                 ELSE IF pick \in ready THEN pick ELSE first

RECURSIVE scanQueue(_, _, _, _)
\* The loop over the priority buckets of q from bucket pr downwards: it
\* breaks at an empty bucket and at the first bucket with a candidate.
scanQueue(q, pr, rdy, pick) ==
    IF pr < 0 \/ Len(q[pr]) = 0
    THEN [found |-> FALSE, prio |-> 0, pos |-> 0]
    ELSE LET pos == chooseNextDC(q[pr], rdy, pick)
         IN IF pos # 0
            THEN [found |-> TRUE, prio |-> pr, pos |-> pos]
            ELSE scanQueue(q, pr - 1, rdy, pick)

\* the push that puts every packet at the top of the queue
respPush_front(q, pkt, tie) == << pkt >> \o q

\* respQueue.push: the priority queue orders by (readyTime, packet pointer);
\* tie is where the pointer order puts the packet among equal readyTimes
respPush(q, pkt, tie) ==
    LET before == Cardinality({ i \in 1 .. Len(q) :
                                  q[i].readyTime < pkt.readyTime })
        equal == Cardinality({ i \in 1 .. Len(q) :
                                 q[i].readyTime = pkt.readyTime })
        at == before + Min(tie, equal)
    IN SubSeq(q, 1, at) \o << pkt >> \o SubSeq(q, at + 1, Len(q))

\* doBurstAccess: the interface sets the packet's readyTime and the time of
\* the next burst
doBurstAccess(s, mem_pkt, in) ==
    [s EXCEPT !.nextReqTime = s.curTick + in.gap,
              !.writesThisTime = IF mem_pkt.isRead THEN @ ELSE @ + 1]

\* totalWriteQueueSize + nvmWriteQueueSize + dramFillQueueSize
writeVolume(s) ==
    s.totalWriteQueueSize + s.nvmWriteQueueSize + s.dramFillQueueSize

\* the high threshold out of reach
aboveHigh_never(s, x) == FALSE

\* x > writeHighThreshold, with writeHighThreshold =
\* writeBufferSize * write_high_thresh_perc / 100.0
aboveHigh(s, x) == 100 * x > s.writeBufferSize * write_high_thresh_perc

\* the low threshold at zero
aboveLow_zero(s, x) == x > 0

\* x > writeLowThreshold
aboveLow(s, x) == 100 * x > s.writeBufferSize * write_low_thresh_perc

\* x < writeLowThreshold
belowLow(s, x) == 100 * x < s.writeBufferSize * write_low_thresh_perc

\* the issue that keeps the packet out of respQueue
pushResponse_dropped(s, mem_pkt, in, isWriteProbe) == s

\* lines 1890-1903 and 2013-2022: schedule respondEvent and push
pushResponse(s, mem_pkt, in, isWriteProbe) ==
    LET s1 ==
          IF s.respQueue = << >>
          THEN [Require(s, s.respondEvent = NotScheduled,
                        "processNextReqEvent_scheduled")
                  EXCEPT !.respondEvent = mem_pkt.readyTime]
          ELSE LET top == Head(s.respQueue).readyTime
                   a == Require(s, top <= mem_pkt.readyTime,
                                "processNextReqEvent_order")
               IN IF isWriteProbe
                  THEN Require(a, a.respondEvent # NotScheduled,
                               "processNextReqEvent_unscheduled")
                  ELSE scheduleRespond(a, Max(top, a.curTick))
    IN [s1 EXCEPT !.respQueue = respPush(@, mem_pkt, in.tie)]

\* lines 1867-1939: issue the read found at (prio, pos)
issueRead(s, in, nvm_read_found, prio, pos) ==
    LET queue == IF nvm_read_found THEN s.nvmReadQueue ELSE s.readQueue
        mem_pkt == [queue[prio][pos] EXCEPT !.readyTime = s.curTick + in.lat]
        s1 == doBurstAccess(s, mem_pkt, in)
        s2 == logResponse(s1, IF nvm_read_found THEN 2 ELSE 0)
        s3 == pushResponse(s2, mem_pkt, in, FALSE)
        switch_to_writes == aboveHigh(s3, writeVolume(s3)) /\ ~in.blocked
        s4 == IF nvm_read_found
              THEN LET a == [s3 EXCEPT !.nvmReadQueue = erase(@, prio, pos),
                                       !.nvmReadQueueSize = @ - 1]
                   IN IF a.retryNVMRdReq
                      THEN scheduleRespond([a EXCEPT !.retryNVMRdReq = FALSE],
                                           a.curTick)
                      ELSE a
              ELSE [s3 EXCEPT !.readQueue = erase(@, prio, pos)]
    IN [s |-> s4, ret |-> FALSE, switch_to_writes |-> switch_to_writes]

\* lines 1766-1941: the first half of the READ branch
readPhase(s, in) ==
    IF s.totalReadQueueSize = 0 /\ s.nvmReadQueueSize = 0
    THEN IF /\ writeVolume(s) # 0
            /\ (s.drainState = "Draining" \/ aboveLow(s, writeVolume(s)))
         THEN [s |-> s, ret |-> FALSE, switch_to_writes |-> TRUE]
         ELSE [ s |-> IF /\ s.drainState = "Draining"
                         /\ s.respQueue = << >>
                         /\ in.drained
                      THEN signalDrainDone(s)
                      ELSE s,
                ret |-> TRUE, switch_to_writes |-> FALSE ]
    ELSE LET top == s.qos_priorities - 1
             n == scanQueue(s.nvmReadQueue, top, in.rdy, in.pick)
             d == scanQueue(s.readQueue, top, in.rdy, in.pick)
         IN IF n.found
            THEN issueRead(s, in, TRUE, n.prio, n.pos)
            ELSE IF d.found
                 THEN issueRead(s, in, FALSE, d.prio, d.pos)
                 ELSE [s |-> s, ret |-> TRUE, switch_to_writes |-> FALSE]

\* lines 1943-2072: issue the tag check of a queued write
writeProbePhase(s, in, switched_cmd_type) ==
    LET w == scanQueue(s.writeQueue, s.qos_priorities - 1, in.rdy, in.pick)
    IN
    IF ~w.found
    THEN [s |-> s, ret |-> TRUE, switch_to_writes |-> FALSE]
    ELSE
      LET mem_pkt == [s.writeQueue[w.prio][w.pos]
                        EXCEPT !.readyTime = s.curTick + in.lat]
          s1 == doBurstAccess(s, mem_pkt, in)
          s2 == [s1 EXCEPT !.isInWriteQueue = @ \ {burstAlign(mem_pkt.addr)}]
          s3 == logResponse(s2, 1)
          s4 == pushResponse(s3, mem_pkt, in, TRUE)
          switch_to_writes == aboveHigh(s4, writeVolume(s4)) /\ ~in.blocked
          s5 == [s4 EXCEPT !.writeQueue = erase(@, w.prio, w.pos)]
          below_threshold ==
              belowLow(s5, s5.totalWriteQueueSize + s5.minWritesPerSwitch)
          s6 == IF \/ s5.totalWriteQueueSize = 0
                   \/ (below_threshold /\ s5.drainState # "Draining")
                   \/ (s5.totalReadQueueSize # 0
                         /\ s5.writesThisTime >= s5.minWritesPerSwitch)
                   \/ (s5.totalReadQueueSize # 0 /\ in.blocked)
                THEN [s5 EXCEPT !.busStateNext = "READ"]
                ELSE s5
      IN [s |-> s6, ret |-> FALSE, switch_to_writes |-> switch_to_writes]

\* lines 1943-1949: the tag check of a write is issued when the read half
\* (its outcome in a) asked for writes and only writeQueue holds any
readBranchProbe(a, in, switched_cmd_type) ==
    IF /\ ~a.ret
       /\ a.s.totalReadQueueSize = 0
       /\ a.s.nvmReadQueueSize = 0
       /\ a.s.nvmWriteQueueSize = 0
       /\ a.s.dramFillQueueSize = 0
       /\ a.s.totalWriteQueueSize # 0
       /\ a.switch_to_writes
    THEN writeProbePhase(a.s, in, switched_cmd_type)
    ELSE a

\* the READ branch that never turns the bus
readBranchEnd_noSwitch(b) == b

\* lines 2074-2080: the switch to writes at the end of the READ branch
readBranchEnd(b) ==
    IF b.ret
    THEN b
    ELSE [ s |-> IF b.switch_to_writes
                 THEN [b.s EXCEPT !.busStateNext = "WRITE"]
                 ELSE b.s,
           ret |-> FALSE, switch_to_writes |-> b.switch_to_writes ]

\* lines 1766-2080: the READ branch; ret tells that the function returned
readBranch(s, in, switched_cmd_type) ==
    readBranchEnd(readBranchProbe(readPhase(s, in), in, switched_cmd_type))

\* reads waiting in either read queue
readsWaiting_either(s) == s.totalReadQueueSize # 0 \/ s.nvmReadQueueSize # 0

\* lines 2217-2218: totalReadQueueSize as a condition
readsWaiting(s) == s.totalReadQueueSize # 0

\* lines 2205-2228: the turn back to READ once the write is issued
writeBranchTurn(s3, in) ==
    LET below_threshold ==
            belowLow(s3, writeVolume(s3) + s3.minWritesPerSwitch)
    IN IF \/ writeVolume(s3) = 0
          \/ (below_threshold /\ s3.drainState # "Draining")
          \/ (readsWaiting(s3)
                /\ s3.writesThisTime >= s3.minWritesPerSwitch)
          \/ (readsWaiting(s3) /\ in.blocked)
       THEN [s3 EXCEPT !.busStateNext = "READ",
                       !.lowSwitch =
                          /\ below_threshold
                          /\ s3.drainState # "Draining"]
       ELSE s3

\* the backing write preferred to the fill
chosenWrite_backingFirst(f, n) ==
    [ dfill_write_found |-> f.found /\ ~n.found,
      nvm_write_found |-> n.found,
      to_write |-> IF n.found THEN n ELSE f ]

\* lines 2089-2136: what the two loops leave, f and n being what
\* chooseNextDC finds in dramFillQueue and in nvmWriteQueue; nvmWriteQueue
\* is scanned only if (!dfill_write_found)
chosenWrite(f, n) ==
    [ dfill_write_found |-> f.found,
      nvm_write_found |-> ~f.found /\ n.found,
      to_write |-> IF f.found THEN f ELSE n ]

\* lines 2138-2229: the WRITE branch once the loops have chosen c
writeBranchIssue(s, in, c) ==
    IF ~c.dfill_write_found /\ ~c.nvm_write_found
    THEN [s |-> [s EXCEPT !.busStateNext = "READ", !.lowSwitch = FALSE],
          ret |-> TRUE]
    ELSE
      LET w == c.to_write
          mem_pkt == IF c.dfill_write_found
                     THEN s.dramFillQueue[w.prio][w.pos]
                     ELSE s.nvmWriteQueue[w.prio][w.pos]
      IN
      IF c.dfill_write_found /\ mem_pkt.is_waiting_for_nvm_read
      THEN [s |-> [s EXCEPT !.busStateNext = "READ", !.lowSwitch = FALSE],
            ret |-> TRUE]
      ELSE
        LET s1 == doBurstAccess(s, mem_pkt, in)
            s2 == logResponse(s1, IF c.nvm_write_found THEN 3 ELSE 4)
            s3 == IF c.dfill_write_found
                  THEN LET a == [s2 EXCEPT
                                   !.dramFillQueue = erase(@, w.prio, w.pos),
                                   !.dramFillQueueSize = @ - 1]
                       IN IF a.retryDRAMFillReq
                          THEN scheduleRespond(
                                 [a EXCEPT !.retryDRAMFillReq = FALSE],
                                 a.curTick)
                          ELSE a
                  ELSE LET a == [s2 EXCEPT
                                   !.nvmWriteQueue = erase(@, w.prio, w.pos),
                                   !.nvmWriteQueueSize = @ - 1]
                       IN IF a.retryNVMWrReq
                          THEN scheduleRespond(
                                 [a EXCEPT !.retryNVMWrReq = FALSE],
                                 a.curTick)
                          ELSE a
        IN [s |-> writeBranchTurn(s3, in), ret |-> FALSE]

\* lines 2081-2229: the WRITE branch
writeBranch(s, in, switched_cmd_type) ==
    writeBranchIssue(s, in,
        chosenWrite(
            scanQueue(s.dramFillQueue, s.qos_priorities - 1, in.rdy, in.pick),
            scanQueue(s.nvmWriteQueue, s.qos_priorities - 1, in.rdy,
                      in.pick)))

\* lines 2232-2241: unless the branch (its outcome in b) returned, the
\* next pass is scheduled and a refused writer is told to retry
processNextReqEventEnd(b) ==
    IF b.ret
    THEN b.s
    ELSE LET s2 == scheduleNextReq(b.s, Max(b.s.nextReqTime, b.s.curTick))
         IN IF s2.retryWrReq /\ writeVolume(s2) < s2.writeBufferSize
            THEN sendRetryReq([s2 EXCEPT !.retryWrReq = FALSE])
            ELSE s2

\* processNextReqEvent with the media's answers in:
\*   busy     dram->isBusy() && nvm->isBusy(..)
\*   rdy      the interfaces with a rank ready for a burst
\*   pick     the packet the interface's chooseNextFRFCFS prefers
\*   lat      readyTime - curTick of the burst issued
\*   gap      nextReqTime - curTick after the burst
\*   tie      the pointer order of the packet in respQueue
\*   blocked  nvm && all_writes_nvm && nvm->writeRespQueueFull()
\*   drained  allIntfDrained()
processNextReqEvent(s0, in) ==
    LET switched_cmd_type == s0.busState # s0.busStateNext
        s1 == [s0 EXCEPT !.nextReqEvent = NotScheduled,
                         !.writesThisTime =
                            IF switched_cmd_type /\ s0.busState = "WRITE"
                            THEN 0 ELSE @,
                         !.busState = s0.busStateNext]
    IN
    IF in.busy
    THEN s1
    ELSE processNextReqEventEnd(
           IF s1.busState = "READ"
           THEN readBranch(s1, in, switched_cmd_type)
           ELSE writeBranch(s1, in, switched_cmd_type))

----------------------------------------------------------------------------
(* Command bus windows *)

\* burstTicks.count(t)
burstCount(ticks, t) == IF t \in DOMAIN ticks THEN ticks[t] ELSE 0

\* burstTicks.insert(t)
burstInsert(ticks, t) ==
    [ x \in DOMAIN ticks \cup {t} |->
        burstCount(ticks, x) + (IF x = t THEN 1 ELSE 0) ]

\* every recorded window start that curTick has passed is erased
pruneBurstTick(s) ==
    [s EXCEPT !.burstTicks =
        [ x \in { y \in DOMAIN @ : ~(s.curTick > y) } |-> @[x] ]]

getBurstWindow(cmd_tick) == cmd_tick - (cmd_tick % commandWindow)

RECURSIVE singleSlot(_, _, _, _)
\* the while loop of verifySingleCmd
singleSlot(ticks, max_cmds_per_burst, burst_tick, cmd_at) ==
    IF burstCount(ticks, burst_tick) >= max_cmds_per_burst
    THEN singleSlot(ticks, max_cmds_per_burst, burst_tick + commandWindow,
                    burst_tick + commandWindow)
    ELSE [ burst_tick |-> burst_tick, cmd_at |-> cmd_at ]

\* the controller state and the tick the command is granted
verifySingleCmd(s, cmd_tick, max_cmds_per_burst) ==
    LET r == singleSlot(s.burstTicks, max_cmds_per_burst,
                        getBurstWindow(cmd_tick), cmd_tick)
    IN [s EXCEPT !.burstTicks = burstInsert(@, r.burst_tick),
                 !.lastCmd = [ kind |-> "single", cmd_tick |-> cmd_tick,
                               split |-> 0, cmd_at |-> r.cmd_at,
                               first |-> r.burst_tick,
                               second |-> r.burst_tick ]]

RECURSIVE firstCmdOffset(_, _, _)
\* lines 1550-1552: the windows to go back for the first command
firstCmdOffset(max_multi_cmd_split, first_cmd_offset, burst_offset) ==
    IF max_multi_cmd_split > first_cmd_offset + burst_offset
    THEN firstCmdOffset(max_multi_cmd_split, first_cmd_offset,
                        burst_offset + commandWindow)
    ELSE burst_offset

\* the second command counts the first one in when both share a window
secondCmdCount_alone(ticks, same_burst, first_cmd_count, burst_tick) ==
    burstCount(ticks, burst_tick)

\* lines 1564-1565
secondCmdCount(ticks, same_burst, first_cmd_count, burst_tick) ==
    IF same_burst THEN first_cmd_count + 1
    ELSE burstCount(ticks, burst_tick)

\* the loop that never moves the first command after the second
gapViolated_never(same_burst, burst_tick, first_cmd_tick, max_multi_cmd_split) == FALSE

\* Tick is unsigned: a first command beyond the second makes the difference
\* wrap to a value above every max_multi_cmd_split
gapViolated(same_burst, burst_tick, first_cmd_tick, max_multi_cmd_split) ==
    /\ ~same_burst
    /\ \/ burst_tick < first_cmd_tick
       \/ burst_tick - first_cmd_tick > max_multi_cmd_split

RECURSIVE multiSlots(_, _, _, _, _, _)
\* the while loop of verifyMultiCmd, lines 1561-1588
multiSlots(ticks, max_cmds_per_burst, max_multi_cmd_split, burst_tick, first_cmd_tick, cmd_at) ==
    LET same_burst == burst_tick = first_cmd_tick
        first_cmd_count == burstCount(ticks, first_cmd_tick)
        second_cmd_count ==
            secondCmdCount(ticks, same_burst, first_cmd_count, burst_tick)
        first_can_issue == first_cmd_count < max_cmds_per_burst
        second_can_issue == second_cmd_count < max_cmds_per_burst
        burst_tick2 == IF ~second_can_issue
                       THEN burst_tick + commandWindow ELSE burst_tick
        cmd_at2 == IF ~second_can_issue THEN burst_tick2 ELSE cmd_at
        gap_violated == gapViolated(same_burst, burst_tick2, first_cmd_tick,
                                    max_multi_cmd_split)
        first_cmd_tick2 ==
            IF ~first_can_issue \/ (~second_can_issue /\ gap_violated)
            THEN first_cmd_tick + commandWindow ELSE first_cmd_tick
    IN IF first_can_issue /\ second_can_issue
       THEN [ burst_tick |-> burst_tick, first_cmd_tick |-> first_cmd_tick,
              cmd_at |-> cmd_at ]
       ELSE multiSlots(ticks, max_cmds_per_burst, max_multi_cmd_split,
                       burst_tick2, first_cmd_tick2, cmd_at2)

verifyMultiCmd(s, cmd_tick, max_cmds_per_burst, max_multi_cmd_split) ==
    LET burst_tick == getBurstWindow(cmd_tick)
        burst_offset == firstCmdOffset(max_multi_cmd_split,
                                       cmd_tick % commandWindow, 0)
        first_cmd_tick == burst_tick - Min(burst_offset, burst_tick)
        r == multiSlots(s.burstTicks, max_cmds_per_burst,
                        max_multi_cmd_split, burst_tick, first_cmd_tick,
                        cmd_tick)
    IN [s EXCEPT !.burstTicks =
                    burstInsert(burstInsert(@, r.burst_tick),
                                r.first_cmd_tick),
                 !.lastCmd = [ kind |-> "multi", cmd_tick |-> cmd_tick,
                               split |-> max_multi_cmd_split,
                               cmd_at |-> r.cmd_at,
                               first |-> r.first_cmd_tick,
                               second |-> r.burst_tick ]]

----------------------------------------------------------------------------
(* drain *)

\* drain() that does not look at the fill queue
drain_noFill(s, drained) ==
    IF ~( /\ s.totalWriteQueueSize = 0
          /\ s.totalReadQueueSize = 0
          /\ s.nvmReadQueueSize = 0
          /\ s.nvmWriteQueueSize = 0
          /\ s.respQueue = << >>
          /\ drained )
    THEN [s EXCEPT !.drainState = "Draining"]
    ELSE [s EXCEPT !.drainState = "Drained"]

\* MemCtrl::drain() called by the drain manager; drained is allIntfDrained()
drain(s, drained) ==
    IF ~( /\ s.totalWriteQueueSize = 0
          /\ s.totalReadQueueSize = 0
          /\ s.nvmReadQueueSize = 0
          /\ s.nvmWriteQueueSize = 0
          /\ s.dramFillQueueSize = 0
          /\ s.respQueue = << >>
          /\ drained )
    THEN LET kick == \/ s.totalWriteQueueSize = 0
                     \/ s.nvmWriteQueueSize = 0
                     \/ s.dramFillQueueSize = 0
             s1 == IF kick THEN scheduleNextReq(s, s.curTick) ELSE s
         IN [s1 EXCEPT !.drainState = "Draining"]
    ELSE [s EXCEPT !.drainState = "Drained"]

----------------------------------------------------------------------------
(* Inputs *)

\* the largest burst-aligned address a request of the model touches
MaxLine == 2
MaxPick == 2
MaxTie == 1

\* burst-aligned addresses of the modelled range
LineAddrs == { k * burst_size : k \in 0 .. MaxLine }

\* what the memory behind the tag store may hold
HeapEntries ==
    {InvalidEntry} \cup
    { [ tag |-> returnTag(a), valid_line |-> TRUE, dirty_line |-> d,
        nvmAddr |-> a ] : a \in LineAddrs, d \in BOOLEAN }

Request(addr, size, isWrite, qos, needsResponse) ==
    [ addr |-> addr, size |-> size, isWrite |-> isWrite, qos |-> qos,
      needsResponse |-> needsResponse ]

\* a pass in state s finds nothing to read and nothing to write
idlePass(s) ==
    /\ s.busStateNext = "READ"
    /\ s.totalReadQueueSize = 0
    /\ s.nvmReadQueueSize = 0
    /\ writeVolume(s) = 0

\* some priority bucket of q holds more than one packet
hasChoice(q) == \E pr \in DOMAIN q : Len(q[pr]) > 1

\* chooseNextDC has more than one packet to pick from
anyChoice(s) ==
    \/ hasChoice(s.readQueue) \/ hasChoice(s.writeQueue)
    \/ hasChoice(s.nvmReadQueue) \/ hasChoice(s.nvmWriteQueue)
    \/ hasChoice(s.dramFillQueue)

\* the ranks that have a packet queued for them
ranksOf(q) ==
    UNION { { rankName(q[pr][i]) : i \in 1 .. Len(q[pr]) } : pr \in DOMAIN q }

queuedFor(s) ==
    ranksOf(s.readQueue) \cup ranksOf(s.writeQueue)
    \cup ranksOf(s.dramFillQueue) \cup ranksOf(s.nvmReadQueue)
    \cup ranksOf(s.nvmWriteQueue)

\* The answers of the media to one scheduler pass.  An answer the pass does
\* not read in state s is fixed, so that equal passes are not enumerated
\* twice.  An interface finishes its bursts in the order it was given them:
\* the burst of this pass is not ready before the earlier bursts of the
\* same interface.
SchedInputsOf(s, idle, choice, queued) ==
    { in \in [ busy : BOOLEAN, rdy : SUBSET queued,
               pick : 1 .. MaxPick, lat : 1 .. MaxLat, gap : 0 .. MaxGap,
               tie : 0 .. MaxTie, blocked : BOOLEAN, drained : BOOLEAN ] :
        /\ (in.busy \/ idle) =>
               /\ in.rdy = {}
               /\ in.pick = 1 /\ in.lat = 1 /\ in.gap = 0 /\ in.tie = 0
               /\ ~in.blocked
        /\ in.busy => ~in.drained
        /\ s.drainState # "Draining" => ~in.drained
        /\ ~choice => in.pick = 1
        /\ in.tie > 0 =>
               \E i \in 1 .. Len(s.respQueue) :
                  s.respQueue[i].readyTime = s.curTick + in.lat
        /\ in.blocked => writeVolume(s) > 0
        /\ \A i \in 1 .. Len(s.respQueue) :
               packetReady(s.respQueue[i], in.rdy) =>
                   s.respQueue[i].readyTime <= s.curTick + in.lat
        /\ in.rdy = {} =>
               in.lat = 1 /\ in.gap = 0 /\ in.tie = 0 /\ in.pick = 1 }

SchedInputs(s) == SchedInputsOf(s, idlePass(s), anyChoice(s), queuedFor(s))

\* the answers of the media to one completion pass
RespInputs(s) ==
    LET beyond == /\ s.respQueue # << >>
                  /\ Head(s.respQueue).isDram
                  /\ tagIndex(Head(s.respQueue).addr) >= numEntries
    IN { in \in [ heap : HeapEntries, drained : BOOLEAN ] :
           /\ ~beyond => in.heap = InvalidEntry
           /\ s.drainState # "Draining" => ~in.drained }

----------------------------------------------------------------------------
(* Actions *)

Running == panic = "none"

\* the requestor submits its next request
RecvTimingReq ==
    /\ Running
    /\ incoming # << >>
    /\ Assign([recvTimingReq(State, Head(incoming))
                 EXCEPT !.incoming = Tail(incoming)])

ProcessNextReqEvent ==
    /\ Running
    /\ nextReqEvent = curTick
    /\ \E in \in SchedInputs(State) :
          Assign([processNextReqEvent(State, in)
                    EXCEPT !.intfDrained = in.drained])

ProcessRespondEvent ==
    /\ Running
    /\ respondEvent = curTick
    /\ \E in \in RespInputs(State) :
          Assign([processRespondEvent(State, in)
                    EXCEPT !.intfDrained = in.drained])

\* the event queue moves to the next tick once no event is left at this one
AdvanceTime ==
    /\ Running
    /\ curTick < MaxTime
    /\ nextReqEvent # curTick
    /\ respondEvent # curTick
    /\ \/ incoming # << >>
       \/ nextReqEvent > curTick
       \/ respondEvent > curTick
    /\ Assign([State EXCEPT !.curTick = @ + 1])

\* the drain manager asks the controller to drain
Drain ==
    /\ Running
    /\ drainState = "Running"
    /\ drainsSignalled < MaxDrains
    /\ \E drained \in BOOLEAN :
          Assign([drain(State, drained) EXCEPT !.intfDrained = drained])

\* drainResume(): the timing mode does not change
DrainResume ==
    /\ Running
    /\ drainState = "Drained"
    /\ Assign([State EXCEPT !.drainState = "Running"])

----------------------------------------------------------------------------
(* Specifications *)

\* every sequence of MaxReqs requests over the shapes
Scripts(shapes) == [1 .. MaxReqs -> shapes]

\* what the controller does, whoever the requestor is
Next ==
    \/ RecvTimingReq
    \/ ProcessNextReqEvent
    \/ ProcessRespondEvent
    \/ AdvanceTime

\* a split read and a single-burst read of its second line
ReadShapes ==
    { Request(0, 128, FALSE, 0, TRUE), Request(64, 64, FALSE, 0, TRUE) }

InitReads ==
    \E script \in Scripts(ReadShapes) : InitFrom(InitState(TRUE, 1, script))

SpecReads == InitReads /\ [][Next]_vars

\* single-burst writes of two lines and a write of both
WriteShapes ==
    { Request(0, 64, TRUE, 0, TRUE), Request(64, 64, TRUE, 0, TRUE),
      Request(0, 128, TRUE, 0, TRUE) }

InitWrites ==
    \E script \in Scripts(WriteShapes), wa \in BOOLEAN :
        InitFrom(InitState(wa, 1, script))

SpecWrites == InitWrites /\ [][Next]_vars

\* a write that fills the write queue, then a write of another line
\* submitted twice
RetryScript ==
    << Request(0, 128, TRUE, 0, TRUE), Request(256, 64, TRUE, 0, TRUE),
       Request(256, 64, TRUE, 0, TRUE) >>

InitRetry == \E wa \in BOOLEAN : InitFrom(InitState(wa, 1, RetryScript))

SpecRetry == InitRetry /\ [][Next]_vars

\* a write and a read of the same line
ForwardShapes ==
    { Request(64, 64, TRUE, 0, TRUE), Request(64, 64, FALSE, 0, TRUE) }

InitForward ==
    \E script \in Scripts(ForwardShapes), wa \in BOOLEAN :
        InitFrom(InitState(wa, 1, script))

SpecForward == InitForward /\ [][Next]_vars

\* writes of two lines, then a read of both
SplitForwardScript ==
    << Request(64, 64, TRUE, 0, TRUE), Request(0, 64, TRUE, 0, TRUE),
       Request(0, 128, FALSE, 0, TRUE) >>

InitSplitForward ==
    \E wa \in BOOLEAN : InitFrom(InitState(wa, 1, SplitForwardScript))

SpecSplitForward == InitSplitForward /\ [][Next]_vars

\* reads of a line of the first half of the tag store's address range and
\* of a line of the second half
TagShapes ==
    { Request(0, 64, FALSE, 0, TRUE), Request(128, 64, FALSE, 0, TRUE) }

InitTags ==
    \E script \in Scripts(TagShapes) : InitFrom(InitState(TRUE, 1, script))

SpecTags == InitTags /\ [][Next]_vars

\* a read of one or of two lines that is still in flight when writes of
\* the same lines have their tags checked
WriteHitScripts ==
    { << Request(0, 64, FALSE, 0, TRUE), Request(0, 64, TRUE, 0, TRUE),
         Request(64, 64, TRUE, 0, TRUE) >>,
      << Request(0, 128, FALSE, 0, TRUE), Request(0, 64, TRUE, 0, TRUE),
         Request(64, 64, TRUE, 0, TRUE) >> }

InitWriteHit ==
    \E script \in WriteHitScripts, wa \in BOOLEAN :
        InitFrom(InitState(wa, 1, script))

SpecWriteHit == InitWriteHit /\ [][Next]_vars

\* a read that fills line 0 of the tag store, then a read or a write of
\* another address of the same line
DirtyScripts ==
    { << Request(0, 64, FALSE, 0, TRUE), Request(256, 64, FALSE, 0, TRUE) >>,
      << Request(0, 64, FALSE, 0, TRUE), Request(256, 64, TRUE, 0, TRUE),
         Request(64, 64, TRUE, 0, TRUE) >> }

InitDirty ==
    \E script \in DirtyScripts, wa \in BOOLEAN :
        InitFrom(InitState(wa, 1, script))

SpecDirty == InitDirty /\ [][Next]_vars

\* two lines are filled and written, then a third access to one of them;
\* write_buffer_size is 3, which puts the low threshold at 1.5 and the high
\* threshold at 2.55 entries
WatermarkScripts ==
    { << Request(0, 64, FALSE, 0, TRUE), Request(64, 64, FALSE, 0, TRUE),
         Request(256, 64, FALSE, 0, TRUE) >>,
      << Request(0, 64, FALSE, 0, TRUE), Request(64, 64, FALSE, 0, TRUE),
         Request(0, 64, TRUE, 0, TRUE) >> }

InitWatermark ==
    \E script \in WatermarkScripts :
        InitFrom([InitState(TRUE, 1, script) EXCEPT !.writeBufferSize = 3])

SpecWatermark == InitWatermark /\ [][Next]_vars

\* write_buffer_size and min_writes_per_switch: 3 and 2 let a write be issued
\* short of min_writes_per_switch; 5 and 1 put the low threshold at 2.5
\* entries, which leaves one write queued below the hysteresis margin
SwitchConfigs ==
    { [writeBufferSize |-> 3, minWritesPerSwitch |-> 2],
      [writeBufferSize |-> 5, minWritesPerSwitch |-> 1] }

InitSwitch ==
    \E script \in WatermarkScripts, cfg \in SwitchConfigs :
        InitFrom([InitState(TRUE, 1, script)
                    EXCEPT !.writeBufferSize = cfg.writeBufferSize,
                           !.minWritesPerSwitch = cfg.minWritesPerSwitch])

SpecSwitch == InitSwitch /\ [][Next]_vars

\* a write refused with the write queue full, and a read refused with the
\* read queue full
RefusalScripts ==
    { << Request(0, 128, TRUE, 0, TRUE), Request(256, 64, TRUE, 0, TRUE) >>,
      << Request(0, 128, FALSE, 0, TRUE), Request(64, 64, FALSE, 0, TRUE) >> }

InitRefusals ==
    \E script \in RefusalScripts, wa \in BOOLEAN :
        InitFrom(InitState(wa, 1, script))

SpecRefusals == InitRefusals /\ [][Next]_vars

\* two priority buckets per queue: reads of a line of the second rank with
\* the higher priority and of a line of the first rank with the lower one,
\* and a read with writes of either priority
QosScripts ==
    Scripts({ Request(8 * burst_size, 64, FALSE, 1, TRUE),
              Request(64, 64, FALSE, 0, TRUE) })
    \cup { << Request(0, 64, FALSE, 1, TRUE), Request(256, 64, TRUE, 0, TRUE),
              Request(64, 64, TRUE, 1, TRUE) >> }

InitQos == \E script \in QosScripts : InitFrom(InitState(TRUE, 2, script))

SpecQos == InitQos /\ [][Next]_vars

\* the controller with the drain manager calling in
NextDrain ==
    \/ RecvTimingReq
    \/ ProcessNextReqEvent
    \/ ProcessRespondEvent
    \/ AdvanceTime
    \/ Drain
    \/ DrainResume

\* a read, a write, or a read and a write of the same line
DrainScripts ==
    { << Request(0, 64, FALSE, 0, TRUE) >>,
      << Request(0, 64, TRUE, 0, TRUE) >>,
      << Request(0, 64, FALSE, 0, TRUE), Request(0, 64, TRUE, 0, TRUE) >> }

InitDrain ==
    \E script \in DrainScripts, wa \in BOOLEAN :
        InitFrom(InitState(wa, 1, script))

SpecDrain == InitDrain /\ [][NextDrain]_vars

\* a media interface asks for the slot of one command
VerifySingleCmd ==
    /\ Running
    /\ \E cmd_tick \in 0 .. MaxCmdTick :
          /\ verifySingleCmd(State, cmd_tick, maxCommandsPerWindow)
                 .lastCmd.second <= MaxBurstTick
          /\ Assign(verifySingleCmd(State, cmd_tick, maxCommandsPerWindow))

\* a media interface asks for the slots of a two-command sequence
VerifyMultiCmd ==
    /\ Running
    /\ \E cmd_tick \in 0 .. MaxCmdTick, split \in 0 .. MaxSplit :
          /\ verifyMultiCmd(State, cmd_tick, maxCommandsPerWindow, split)
                 .lastCmd.second <= MaxBurstTick
          /\ verifyMultiCmd(State, cmd_tick, maxCommandsPerWindow, split)
                 .lastCmd.first <= MaxBurstTick
          /\ Assign(verifyMultiCmd(State, cmd_tick, maxCommandsPerWindow,
                                   split))

PruneBurstTick ==
    /\ Running
    /\ Assign(pruneBurstTick(State))

\* the event queue moves to the next tick
TimePasses ==
    /\ Running
    /\ curTick < MaxTime
    /\ Assign([State EXCEPT !.curTick = @ + 1])

NextCmd ==
    \/ VerifySingleCmd
    \/ VerifyMultiCmd
    \/ PruneBurstTick
    \/ TimePasses

\* no request is submitted; the interfaces ask for command slots with a
\* per-window maximum of 1 .. MaxCmds
InitCmd ==
    \E max \in 1 .. MaxCmds :
        InitFrom([InitState(TRUE, 1, << >>)
                    EXCEPT !.maxCommandsPerWindow = max])

SpecCmd == InitCmd /\ [][NextCmd]_vars

----------------------------------------------------------------------------
(* Finalization of requests *)

Calls == 1 .. Len(reqs)

IsSplitRead(r) == ~reqs[r].isWrite /\ reqs[r].pkt_count > 1

\* the packets of request r in a queue with priority buckets
HoldsPacketOf(q, r) ==
    \E pr \in DOMAIN q : \E i \in 1 .. Len(q[pr]) : q[pr][i].req = r

\* no queue of the controller holds a packet of request r
NoPacketOf(r) ==
    /\ ~HoldsPacketOf(readQueue, r)
    /\ ~HoldsPacketOf(writeQueue, r)
    /\ ~HoldsPacketOf(nvmReadQueue, r)
    /\ ~HoldsPacketOf(nvmWriteQueue, r)
    /\ ~HoldsPacketOf(dramFillQueue, r)
    /\ \A i \in 1 .. Len(respQueue) : respQueue[i].req # r

\* C1: accessAndRespond is invoked at most once for each accepted request,
\* and never for a request that recvTimingReq refused.
C1_AtMostOneFinalize ==
    \A r \in Calls :
        /\ respCount[r] <= 1
        /\ ~reqs[r].accepted => respCount[r] = 0

\* C2: an accepted write that needs a response is finalized; stated for the
\* moment from which nothing can finalize it any more: once the controller
\* holds no packet of the write, accessAndRespond has been called for it.
C2_WriteFinalized ==
    \A r \in Calls :
        ( /\ reqs[r].isWrite
          /\ reqs[r].accepted
          /\ reqs[r].needsResponse
          /\ NoPacketOf(r) ) => respCount[r] >= 1

\* C3: a read split into N > 1 units is finalized at most once, and only
\* when its BurstHelper has counted N completed siblings.
C3_SplitFinalizedAtCount ==
    \A r \in Calls :
        (IsSplitRead(r) /\ respCount[r] >= 1) =>
            /\ respCount[r] = 1
            /\ burstHelpers[r].burstCount = reqs[r].pkt_count
            /\ burstHelpers[r].burstsServiced = reqs[r].pkt_count

----------------------------------------------------------------------------
(* Admission *)

\* the step is a recvTimingReq call
IsCall == Len(reqs') = Len(reqs) + 1

TheCall == reqs'[Len(reqs')]

\* the step is a call with a read, with a write
IsReadCall == IsCall /\ ~TheCall.isWrite
IsWriteCall == IsCall /\ TheCall.isWrite

\* the call finalized its request and created no MemPacket
FinalizedAtAdmission ==
    /\ TheCall.accepted
    /\ respCount'[Len(reqs')] = 1
    /\ readQueue' = readQueue
    /\ respQueue' = respQueue

\* the burst units a request is split into
UnitsOf(r) ==
    LET starts == {r.addr} \cup
                  { b \in (r.addr + 1) .. (r.addr + r.size - 1) :
                      b % burst_size = 0 }
    IN { [ addr |-> a,
           size |-> Min(nextBurstAddr(a), r.addr + r.size) - a ] :
         a \in starts }

\* the packets of q whose byte range covers the unit u
Covering(q, u) ==
    { pos \in UNION { { << pr, i >> : i \in 1 .. Len(q[pr]) } :
                      pr \in DOMAIN q } :
        /\ q[pos[1]][pos[2]].addr <= u.addr
        /\ u.addr + u.size <= q[pos[1]][pos[2]].addr + q[pos[1]][pos[2]].size }

\* some pending packet of the write queue, the fill queue or the
\* backing-write queue covers the unit
CoveredByAny(u) ==
    \/ Covering(writeQueue, u) # {}
    \/ Covering(dramFillQueue, u) # {}
    \/ Covering(nvmWriteQueue, u) # {}

\* packets of exactly one priority bucket of q that are not waiting for a
\* backing read cover the unit
ForwardedBy(q, u) ==
    Cardinality({ pos[1] : pos \in
                    { c \in Covering(q, u) :
                        ~q[c[1]][c[2]].is_waiting_for_nvm_read } }) = 1

\* C5: a write is refused exactly when the write queue cannot take
\* pkt_count more entries; a refusal sets retryWrReq and changes no queue,
\* not isInWriteQueue, no tag and no bus state.
C5_WriteRefusal ==
    [][ IsWriteCall =>
          /\ TheCall.accepted =
                ~(QSize(writeQueue) + TheCall.pkt_count > writeBufferSize)
          /\ ~TheCall.accepted =>
                /\ retryWrReq'
                /\ UNCHANGED << readQueue, writeQueue, nvmReadQueue,
                                nvmWriteQueue, dramFillQueue, respQueue,
                                totalReadQueueSize, totalWriteQueueSize,
                                nvmReadQueueSize, nvmWriteQueueSize,
                                dramFillQueueSize, isInWriteQueue, tagStoreDC,
                                busState, busStateNext >> ]_vars

\* a write has been refused while the write queue was full, and another
\* was accepted
C5_Witness ==
    /\ \E r \in Calls : reqs[r].isWrite /\ ~reqs[r].accepted
    /\ \E r \in Calls : reqs[r].isWrite /\ reqs[r].accepted
    /\ retryWrReq
    /\ QSize(writeQueue) = writeBufferSize

\* C6: a read is refused exactly when the read queue and the completion
\* queue together cannot take pkt_count more entries; a refusal sets
\* retryRdReq and changes no queue, no tag and no bus state.
C6_ReadRefusal ==
    [][ IsReadCall =>
          /\ TheCall.accepted =
                ~(QSize(readQueue) + Len(respQueue) + TheCall.pkt_count
                    > readBufferSize)
          /\ ~TheCall.accepted =>
                /\ retryRdReq'
                /\ UNCHANGED << readQueue, writeQueue, nvmReadQueue,
                                nvmWriteQueue, dramFillQueue, respQueue,
                                totalReadQueueSize, totalWriteQueueSize,
                                nvmReadQueueSize, nvmWriteQueueSize,
                                dramFillQueueSize, isInWriteQueue, tagStoreDC,
                                busState, busStateNext >> ]_vars

\* a read has been refused while the read queue still held a packet and
\* the completion queue another
C6_Witness ==
    /\ \E r \in Calls : ~reqs[r].isWrite /\ ~reqs[r].accepted
    /\ retryRdReq
    /\ QSize(readQueue) > 0
    /\ Len(respQueue) > 0

\* the call submits again a write that an earlier call saw refused
IsResubmission ==
    \E r \in Calls :
        /\ reqs[r].isWrite /\ ~reqs[r].accepted
        /\ reqs[r].addr = TheCall.addr /\ reqs[r].size = TheCall.size

\* C7 as the scenario states it: with writeBufferSize - 1 entries in the
\* write queue one more write that merges with none of them is refused, and
\* its resubmission after a queued write has drained is accepted.
C7_RefusedBelowCapacity ==
    [][ (IsWriteCall /\ TheCall.pkt_count = 1) =>
          /\ ( /\ QSize(writeQueue) = writeBufferSize - 1
               /\ burstAlign(TheCall.addr) \notin isInWriteQueue )
                 => (~TheCall.accepted /\ retryWrReq')
          /\ (IsResubmission /\ QSize(writeQueue) < writeBufferSize - 1)
                 => TheCall.accepted ]_vars

\* C7 with the queue at capacity: with writeBufferSize entries in the write
\* queue one more single-burst write is refused and retryWrReq set; with
\* writeBufferSize - 1 entries it is accepted, and so is the resubmission
\* of a refused write once a queued write has drained.
C7_RefusedAtCapacity ==
    [][ (IsWriteCall /\ TheCall.pkt_count = 1) =>
          /\ QSize(writeQueue) = writeBufferSize
                 => (~TheCall.accepted /\ retryWrReq')
          /\ QSize(writeQueue) = writeBufferSize - 1 => TheCall.accepted
          /\ (IsResubmission /\ QSize(writeQueue) < writeBufferSize)
                 => TheCall.accepted ]_vars

\* the write of line 256 was refused with the queue full and accepted when
\* submitted again, a write of the queue having been issued in between
C7_Witness ==
    /\ Len(reqs) = Len(RetryScript)
    /\ reqs[1].accepted /\ ~reqs[2].accepted /\ reqs[3].accepted
    /\ reqs[2].addr = reqs[3].addr
    /\ HoldsPacketOf(writeQueue, 1)
    /\ HoldsPacketOf(writeQueue, 3)

C4_ForwardedSplitFinalized ==
    [][ /\ ( /\ IsReadCall
             /\ TheCall.accepted
             /\ TheCall.pkt_count > 1
             /\ \A u \in UnitsOf(TheCall) :
                    \/ ForwardedBy(writeQueue, u)
                    \/ ForwardedBy(dramFillQueue, u)
                    \/ ForwardedBy(nvmWriteQueue, u) )
             => respCount'[Len(reqs')] = 1
        /\ \A r \in Calls :
              (IsSplitRead(r) /\ reqs[r].accepted /\ NoPacketOf(r))
                 => respCount[r] = 1 ]_vars

----------------------------------------------------------------------------
(* Tag store arithmetic *)

\* index = (address / lineSize) mod numLines
SpecIndex(a) == (a \div lineSize) % numEntries

\* tag = address >> (indexBits + blockBits)
SpecTag(a) == a \div Pow2(ceilLog2(numEntries) + ceilLog2(lineSize))

\* the class of an access with tag tg to the entry e
ClassOf(e, tg) ==
    IF ~e.valid_line THEN "Invalid"
    ELSE IF e.tag = tg THEN "Hit"
    ELSE IF ~e.dirty_line THEN "CleanMiss"
    ELSE "DirtyMiss"

\* the step is a completion pass that checks the tags for a DRAM packet
IsProbe ==
    /\ respondEvent = curTick
    /\ respQueue # << >>
    /\ Head(respQueue).isDram
    /\ panic' = "none"
    /\ (respondEvent' = NotScheduled \/ Len(respQueue') < Len(respQueue))

\* C9: the completion pass classifies the access to address a by the tag
\* entry at index(a): Invalid when it is not valid, Hit when its tag is
\* tag(a), CleanMiss when the tag differs and it is not dirty, DirtyMiss
\* when the tag differs and it is dirty.
C9_Classification ==
    [][ IsProbe =>
          lastProbe'.class =
              ClassOf(tagStoreDC[SpecIndex(Head(respQueue).addr)],
                      SpecTag(Head(respQueue).addr)) ]_vars

\* C10: the index the tag check uses is (address / lineSize) mod
\* numEntries, an index of the tag store, the tag is address >>
\* (indexBits + blockBits), and index and tag together give back the line
\* address: no address bit is in both.
C10_IndexAndTag ==
    lastProbe.kind = "dram" =>
        /\ lastProbe.index = SpecIndex(lastProbe.addr)
        /\ lastProbe.index \in DOMAIN tagStoreDC
        /\ lastProbe.tag = SpecTag(lastProbe.addr)
        /\ (lastProbe.tag * numEntries + lastProbe.index) * lineSize
              = burstAlign(lastProbe.addr)

----------------------------------------------------------------------------
(* Queue router *)

\* the packet whose completion the pass of this step handles
Completed == Head(respQueue)

\* the step is the tag check of a read's packet, of a write's packet
IsReadProbe == IsProbe /\ ~Completed.read_before_write
IsWriteProbe == IsProbe /\ Completed.read_before_write

\* the step leaves the backing-read, backing-write and fill queues alone
RouterQueuesUnchanged ==
    UNCHANGED << nvmReadQueue, nvmWriteQueue, dramFillQueue,
                 nvmReadQueueSize, nvmWriteQueueSize, dramFillQueueSize >>

\* the step calls accessAndRespond for request r
Finalizes(r) == respCount'[r] = respCount[r] + 1

\* the step pops the completion queue
Pops == respQueue' = Tail(respQueue)

\* C11 as stated: a read completion classified Hit finalizes its request in
\* that same pass, adds nothing to the backing-read, backing-write and fill
\* queues and leaves the tag store unchanged.
C11_HitFinalizedInPass ==
    [][ (IsReadProbe /\ lastProbe'.class = "Hit") =>
          /\ Finalizes(Completed.req)
          /\ RouterQueuesUnchanged
          /\ tagStoreDC' = tagStoreDC ]_vars

\* C11 with the split reads told apart: a Hit of a single-burst read
\* finalizes the request in that pass; a Hit of a unit of a split read
\* counts the unit, and finalizes the request in that pass exactly when the
\* count reaches the number of units.  Neither adds to the backing-read,
\* backing-write or fill queues nor changes the tag store, and the
\* completion entry is popped.
C11_HitServicedInPass ==
    [][ (IsReadProbe /\ lastProbe'.class = "Hit") =>
          /\ RouterQueuesUnchanged
          /\ tagStoreDC' = tagStoreDC
          /\ Pops
          /\ ~Completed.burstHelper =>
                 /\ respCount[Completed.req] = 0
                 /\ Finalizes(Completed.req)
          /\ Completed.burstHelper =>
                 /\ burstHelpers'[Completed.req].burstsServiced =
                        burstHelpers[Completed.req].burstsServiced + 1
                 /\ IF burstHelpers'[Completed.req].burstsServiced =
                          burstHelpers'[Completed.req].burstCount
                    THEN Finalizes(Completed.req)
                    ELSE respCount' = respCount ]_vars

\* a single-burst read was finalized by the Hit of its packet, and a unit
\* of a split read hit as well
C11_Witness ==
    /\ Len(reqs) = 2
    /\ reqs[1].pkt_count = 1 /\ reqs[2].pkt_count = 2
    /\ lastProbe.class = "Hit" /\ ~lastProbe.isWrite
    /\ lastProbe.req = 2
    /\ burstHelpers[2].burstsServiced >= 1

\* the step appends exactly one packet to q, and nothing else changes in q
AppendsOne(q, qNext) ==
    \E pr \in DOMAIN q :
        /\ Len(qNext[pr]) = Len(q[pr]) + 1
        /\ qNext = [q EXCEPT ![pr] = Append(@, qNext[pr][Len(qNext[pr])])]

\* the packet the step appended to q
Appended(q, qNext) ==
    LET pr == CHOOSE x \in DOMAIN q : Len(qNext[x]) = Len(q[x]) + 1
    IN qNext[pr][Len(qNext[pr])]

\* C12: a write's tag check classified Hit enqueues, when the fill queue has
\* room, exactly one fill packet that does not wait for a backing read, and
\* pops the completion entry; when the fill queue is full it changes no
\* queue and no tag entry, sets retryDRAMFillReq, leaves the completion
\* entry at the head and sends no response.
C12_WriteHit ==
    [][ (IsWriteProbe /\ lastProbe'.class = "Hit") =>
          IF QSize(dramFillQueue) < maxDramFillQueueSize
          THEN /\ AppendsOne(dramFillQueue, dramFillQueue')
               /\ Appended(dramFillQueue, dramFillQueue').addr = Completed.addr
               /\ ~Appended(dramFillQueue, dramFillQueue')
                      .is_waiting_for_nvm_read
               /\ dramFillQueueSize' = dramFillQueueSize + 1
               /\ UNCHANGED << nvmReadQueue, nvmWriteQueue >>
               /\ Pops
          ELSE /\ UNCHANGED << readQueue, writeQueue, nvmReadQueue,
                               nvmWriteQueue, dramFillQueue, respQueue,
                               totalReadQueueSize, totalWriteQueueSize,
                               nvmReadQueueSize, nvmWriteQueueSize,
                               dramFillQueueSize, tagStoreDC, respCount >>
               /\ retryDRAMFillReq'
               /\ Head(respQueue') = Completed ]_vars

\* the write of line 0 hit with the fill queue full: its completion entry
\* is still at the head, and the fill-retry flag is set
C12_WitnessFull ==
    /\ lastProbe.class = "Hit" /\ lastProbe.isWrite
    /\ QSize(dramFillQueue) = maxDramFillQueueSize
    /\ retryDRAMFillReq
    /\ respQueue # << >>
    /\ Head(respQueue).read_before_write
    /\ Head(respQueue).addr = lastProbe.addr

\* The queue entries the router table asks for: for a miss, a read and a
\* write under write-allocate need a backing read and a fill, a write
\* without write-allocate a backing write; a DirtyMiss needs a backing
\* write for the victim on top; a write that hits needs a fill.
Required(class, isWrite, wa) ==
    LET miss == class \in {"Invalid", "CleanMiss", "DirtyMiss"}
        alloc == miss /\ (~isWrite \/ wa)
    IN [ nvmRead |-> IF alloc THEN 1 ELSE 0,
         fill |-> IF alloc \/ (class = "Hit" /\ isWrite) THEN 1 ELSE 0,
         nvmWrite |-> (IF miss /\ ~alloc THEN 1 ELSE 0)
                        + (IF class = "DirtyMiss" THEN 1 ELSE 0) ]

\* what the pass of this step has to enqueue
RequiredNow ==
    Required(lastProbe'.class, Completed.read_before_write,
             writeAllocatePolicy)

\* each of the three queues has room for n more entries of it
HasRoom(n) ==
    /\ QSize(nvmReadQueue) + n.nvmRead <= maxNvmReadQueueSize
    /\ QSize(nvmWriteQueue) + n.nvmWrite <= maxNvmWriteQueueSize
    /\ QSize(dramFillQueue) + n.fill <= maxDramFillQueueSize

\* the step enqueues the backing read of the completed packet and the fill
\* paired with it, which waits for the backing read
EnqueuesReadAndFill ==
    /\ AppendsOne(nvmReadQueue, nvmReadQueue')
    /\ Appended(nvmReadQueue, nvmReadQueue').addr = Completed.addr
    /\ Appended(nvmReadQueue, nvmReadQueue').isRead
    /\ nvmReadQueueSize' = nvmReadQueueSize + 1
    /\ AppendsOne(dramFillQueue, dramFillQueue')
    /\ Appended(dramFillQueue, dramFillQueue').addr = Completed.addr
    /\ Appended(dramFillQueue, dramFillQueue').is_waiting_for_nvm_read
    /\ dramFillQueueSize' = dramFillQueueSize + 1

VictimAddr == tagStoreDC[SpecIndex(Completed.addr)].nvmAddr

\* the step appends n packets to q, to the addresses addrs, and changes
\* nothing else in q
Gains(q, qNext, addrs, n) ==
    /\ \A pr \in DOMAIN q :
          /\ Len(qNext[pr]) >= Len(q[pr])
          /\ SubSeq(qNext[pr], 1, Len(q[pr])) = q[pr]
    /\ QSize(qNext) = QSize(q) + n
    /\ UNION { { qNext[pr][i].addr : i \in (Len(q[pr]) + 1) .. Len(qNext[pr]) }
                : pr \in DOMAIN q } = addrs

\* C14: a DirtyMiss with room in the queues required enqueues what the
\* CleanMiss enqueues for the same operation and write-allocate setting,
\* and one victim packet in the backing-write queue to the backing address
\* recorded for the evicted line; a write without write-allocate so adds
\* both the write and the victim to the backing-write queue.
C14_DirtyMissRouting ==
    [][ ( /\ IsProbe
          /\ lastProbe'.class = "DirtyMiss"
          /\ HasRoom(RequiredNow) ) =>
          IF ~Completed.read_before_write \/ writeAllocatePolicy
          THEN /\ EnqueuesReadAndFill
               /\ Gains(nvmWriteQueue, nvmWriteQueue', {VictimAddr}, 1)
          ELSE /\ Gains(nvmWriteQueue, nvmWriteQueue',
                        {Completed.addr, VictimAddr}, 2)
               /\ UNCHANGED << nvmReadQueue, nvmReadQueueSize,
                               dramFillQueue, dramFillQueueSize >> ]_vars

\* the step leaves the three queues of the router and the tag store alone,
\* and the completion entry at the head of the completion queue
NothingRouted ==
    /\ RouterQueuesUnchanged
    /\ tagStoreDC' = tagStoreDC
    /\ respQueue' = respQueue

\* the retry flag of every queue that lacks room for n is set by the step
FlagsOfFullQueues(n) ==
    /\ QSize(nvmReadQueue) + n.nvmRead > maxNvmReadQueueSize
          => retryNVMRdReq'
    /\ QSize(nvmWriteQueue) + n.nvmWrite > maxNvmWriteQueueSize
          => retryNVMWrReq'
    /\ QSize(dramFillQueue) + n.fill > maxDramFillQueueSize
          => retryDRAMFillReq'

\* the step enqueues all of n
WholeSetRouted(n) ==
    /\ QSize(nvmReadQueue') = QSize(nvmReadQueue) + n.nvmRead
    /\ QSize(nvmWriteQueue') = QSize(nvmWriteQueue) + n.nvmWrite
    /\ QSize(dramFillQueue') = QSize(dramFillQueue) + n.fill

\* C15: routing is all or nothing.  When a queue of the set a
\* classification requires lacks room, the pass changes none of the
\* backing-read, backing-write and fill queues and no tag entry, sets the
\* retry flag of each queue that is full and leaves the completion entry at
\* the head; otherwise the whole set is enqueued, never a part of it.
C15_AllOrNothing ==
    [][ IsProbe =>
          IF HasRoom(RequiredNow)
          THEN WholeSetRouted(RequiredNow)
          ELSE /\ NothingRouted
               /\ FlagsOfFullQueues(RequiredNow) ]_vars

----------------------------------------------------------------------------
(* Tag store updates *)

\* the step enqueues a fill packet
FillEnqueued == AppendsOne(dramFillQueue, dramFillQueue')

\* the tag entry a fill of address a leaves behind
FilledEntry(a) ==
    [ tag |-> SpecTag(a), valid_line |-> TRUE, dirty_line |-> TRUE,
      nvmAddr |-> a ]

\* C16: a step that enqueues a fill for address a sets the tag entry at
\* index(a) to tag(a), valid, dirty, backing address a, and changes no
\* other tag entry; a step that enqueues no fill leaves the tag store as
\* it is.
C16_FillWritesTag ==
    [][ /\ FillEnqueued =>
              LET a == Appended(dramFillQueue, dramFillQueue').addr
              IN tagStoreDC' =
                   [tagStoreDC EXCEPT ![SpecIndex(a)] = FilledEntry(a)]
        /\ tagStoreDC' # tagStoreDC => FillEnqueued ]_vars

\* C17: every dirty line of the tag store is valid.
C17_DirtyIsValid ==
    \A i \in DOMAIN tagStoreDC :
        tagStoreDC[i].dirty_line => tagStoreDC[i].valid_line

\* a fill has left a line dirty
C17_Witness ==
    \E i \in DOMAIN tagStoreDC :
        /\ tagStoreDC[i].dirty_line
        /\ tagStoreDC[i].nvmAddr = 256

\* the packets waiting in the fill queue
FillPackets ==
    UNION { { dramFillQueue[pr][i] : i \in 1 .. Len(dramFillQueue[pr]) } :
              pr \in DOMAIN dramFillQueue }

\* C18: no cache line is the fill target of two packets of the fill queue
\* that carry different tags.
C18_OneFillPerLine ==
    \A p, q \in FillPackets :
        SpecIndex(p.addr) = SpecIndex(q.addr)
           => SpecTag(p.addr) = SpecTag(q.addr)

----------------------------------------------------------------------------
(* Completion queue order *)

\* the step pops the completion queue
PopsCompletion ==
    /\ respQueue # << >>
    /\ Len(respQueue') = Len(respQueue) - 1

\* C19: the readyTime of the entry a pop removes is not below the readyTime
\* of the entry popped before it, and no entry of the completion queue has
\* a smaller readyTime than the one removed.
C19_PopOrder ==
    [][ PopsCompletion =>
          /\ lastPopped' >= lastPopped
          /\ \A i \in 1 .. Len(respQueue) :
                 respQueue[i].readyTime >= lastPopped' ]_vars

\* an entry has been popped and one that is ready later is waiting
C19_Witness ==
    /\ lastPopped >= 2
    /\ respQueue # << >>
    /\ Head(respQueue).readyTime > lastPopped
    /\ \E r \in DOMAIN respCount : respCount[r] >= 1

----------------------------------------------------------------------------
(* Bus turnaround *)

\* totalWriteQueueSize + nvmWriteQueueSize + dramFillQueueSize
WriteVolume == totalWriteQueueSize + nvmWriteQueueSize + dramFillQueueSize

\* the step's READ branch decides to turn the bus to WRITE
TurnsToWrite == busStateNext = "READ" /\ busStateNext' = "WRITE"

\* C20 as stated: once the WRITE branch has turned the bus to READ with the
\* write volume below the low threshold, the bus is not turned back to
\* WRITE before the write volume has been above the high threshold.
C20_NoReturnBelowHigh ==
    [][ lowSwitch => ~TurnsToWrite ]_vars

\* C20 as the code has it: after such a turn to READ, and before the write
\* volume has been above the high threshold, the bus is turned back to WRITE
\* only with both read queues empty and the write volume above the low
\* threshold, or while draining with writes queued.
C20_ReturnAboveLow ==
    [][ (lowSwitch /\ TurnsToWrite) =>
          /\ totalReadQueueSize = 0
          /\ nvmReadQueueSize = 0
          /\ WriteVolume # 0
          /\ \/ drainState = "Draining"
             \/ 100 * WriteVolume > writeBufferSize * write_low_thresh_perc
      ]_vars

\* the bus has been turned back to WRITE with the write volume between the
\* thresholds
C20_Witness ==
    /\ lowSwitch
    /\ busState = "READ"
    /\ busStateNext = "WRITE"
    /\ WriteVolume = 2

----------------------------------------------------------------------------
(* Command bus windows: the per-window maximum *)

\* C21: no window start is recorded in burstTicks more often than the
\* per-window maximum of the verifySingleCmd and verifyMultiCmd calls.
C21_WindowMax ==
    \A t \in DOMAIN burstTicks : burstTicks[t] <= maxCommandsPerWindow

\* both commands of a two-command sequence were put into one window, which
\* now holds the maximum
C21_Witness ==
    /\ lastCmd.kind = "multi"
    /\ lastCmd.first = lastCmd.second
    /\ burstCount(burstTicks, lastCmd.first) = maxCommandsPerWindow

----------------------------------------------------------------------------
(* Draining *)

\* the step is a call of drain()
IsDrainCall == drainState = "Running" /\ drainState' # "Running"

\* the six queues of the controller hold nothing
AllQueuesEmpty ==
    /\ QSize(readQueue) = 0
    /\ QSize(writeQueue) = 0
    /\ QSize(nvmReadQueue) = 0
    /\ QSize(nvmWriteQueue) = 0
    /\ QSize(dramFillQueue) = 0
    /\ respQueue = << >>

\* C22: drain() returns Drained exactly when the six queues are empty and
\* the media interfaces report that they are drained, and Draining in every
\* other state.
C22_DrainResult ==
    [][ IsDrainCall =>
          /\ drainState' \in {"Draining", "Drained"}
          /\ drainState' = "Drained" <=> (AllQueuesEmpty /\ intfDrained')
      ]_vars

\* drain() has returned Draining with every queue empty, the media not yet
\* drained
C22_Witness ==
    /\ drainState = "Draining"
    /\ AllQueuesEmpty
    /\ ~intfDrained
    /\ reqs # << >>

\* the step calls signalDrainDone()
SignalsDrainDone == drainsSignalled' = drainsSignalled + 1

\* C23: signalDrainDone() is called only while a drain is pending, with the
\* six queues empty once the pass is over and the media interfaces drained.
C23_SignalOnlyWhenIdle ==
    [][ SignalsDrainDone =>
          /\ drainState = "Draining"
          /\ AllQueuesEmpty'
          /\ intfDrained' ]_vars

----------------------------------------------------------------------------
(* Retry notifications *)

\* the step calls port.sendRetryReq() once
RetrySent == retriesSent' = retriesSent + 1

\* the step takes a packet out of the write queue
WriteQueueDrops == QSize(writeQueue') < QSize(writeQueue)

\* the step takes an entry out of what readQueueFull counts
ReadQueueDrops ==
    totalReadQueueSize' + Len(respQueue')
        < totalReadQueueSize + Len(respQueue)

\* C24: with a refusal pending, the step in which the blocking queue drops
\* below capacity sends the retry notification, so it is sent eventually
\* once the queue has dropped; the flag of the refusal is cleared in the
\* step that sends, and no step sends with neither flag set.
C24_RetryOnDrop ==
    [][ /\ (retryWrReq /\ WriteQueueDrops) => (RetrySent /\ ~retryWrReq')
        /\ (retryRdReq /\ ReadQueueDrops) => (RetrySent /\ ~retryRdReq')
        /\ retriesSent' # retriesSent =>
              /\ RetrySent
              /\ \/ retryRdReq /\ ~retryRdReq' /\ retryWrReq' = retryWrReq
                 \/ retryWrReq /\ ~retryWrReq' /\ retryRdReq' = retryRdReq
      ]_vars

\* the refused write's retry has been sent, a write having left the queue
C24_Witness ==
    /\ retriesSent = 1
    /\ ~retryWrReq
    /\ \E r \in DOMAIN reqs : reqs[r].isWrite /\ ~reqs[r].accepted
    /\ QSize(writeQueue) < writeBufferSize

----------------------------------------------------------------------------
(* Queue counters *)

\* C25: in every state between two events, nvmReadQueueSize,
\* nvmWriteQueueSize and dramFillQueueSize each equal the number of packets
\* their queue holds over all priority buckets.
C25_CountersMatch ==
    /\ nvmReadQueueSize = QSize(nvmReadQueue)
    /\ nvmWriteQueueSize = QSize(nvmWriteQueue)
    /\ dramFillQueueSize = QSize(dramFillQueue)

\* all three queues hold a packet at once
C25_Witness ==
    /\ Running
    /\ nvmReadQueueSize > 0
    /\ nvmWriteQueueSize > 0
    /\ dramFillQueueSize > 0

----------------------------------------------------------------------------
(* Queue capacities *)

\* the asserts on a full queue that precede the insertions
CapacityAsserts ==
    { "addToReadQueue_full", "addToWriteQueue_full",
      "addToDRAMFillQueue_full", "addToNVMReadQueue_full",
      "addToNVMWriteQueue_full" }

\* C26: in every reachable state the backing-read queue holds at most
\* maxNvmReadQueueSize packets, the backing-write queue at most
\* maxNvmWriteQueueSize, the fill queue at most maxDramFillQueueSize, the
\* write queue at most writeBufferSize, and the read queue and the
\* completion queue together at most readBufferSize; no capacity assert
\* before an insertion fails.
C26_WithinCapacity ==
    /\ QSize(nvmReadQueue) <= maxNvmReadQueueSize
    /\ QSize(nvmWriteQueue) <= maxNvmWriteQueueSize
    /\ QSize(dramFillQueue) <= maxDramFillQueueSize
    /\ QSize(writeQueue) <= writeBufferSize
    /\ QSize(readQueue) + Len(respQueue) <= readBufferSize
    /\ panic \notin CapacityAsserts

----------------------------------------------------------------------------
(* Bus turnaround *)

\* nextReqEvent is due: the next step of the controller may be a pass
PassDue == Running /\ nextReqEvent = curTick

\* the pass starts with the bus in state b and the media not busy
PassIn(s, in, b) == ~in.busy /\ s.busStateNext = b

\* totalReadQueueSize == 0 && nvmReadQueueSize == 0
ReadsEmpty(s) == s.totalReadQueueSize = 0 /\ s.nvmReadQueueSize = 0

\* neither loop of the READ branch finds a read
NoReadCandidate(s, in) ==
    /\ ~scanQueue(s.nvmReadQueue, s.qos_priorities - 1, in.rdy, in.pick).found
    /\ ~scanQueue(s.readQueue, s.qos_priorities - 1, in.rdy, in.pick).found

\* the write volume is above the low threshold, or a drain is active
WritesWanted(s) ==
    aboveLow(s, writeVolume(s)) \/ s.drainState = "Draining"

\* C27 as stated: a pass in READ that finds no read candidate, the read
\* queues being empty or holding no ready packet, with the write volume
\* above the low threshold or a drain active, leaves WRITE as the next bus
\* state.
C27_NoReadTurnsToWrite ==
    PassDue =>
      \A in \in SchedInputs(State) :
         (PassIn(State, in, "READ") /\ NoReadCandidate(State, in)
            /\ WritesWanted(State))
         => processNextReqEvent(State, in).busStateNext = "WRITE"

\* C27 as the code has it: such a pass leaves WRITE as the next bus state
\* when both read queues are empty and the backing-write or the fill queue
\* holds a packet; with a read queued and none ready the next bus state
\* stays READ; with writes in the write queue only it becomes WRITE only
\* if the write volume is above the high threshold.
C27_EmptyReadsTurnToWrite ==
    PassDue =>
      \A in \in SchedInputs(State) :
         (PassIn(State, in, "READ") /\ NoReadCandidate(State, in)
            /\ WritesWanted(State))
         => /\ ( /\ ReadsEmpty(State)
                 /\ nvmWriteQueueSize + dramFillQueueSize > 0 )
               => processNextReqEvent(State, in).busStateNext = "WRITE"
            /\ ~ReadsEmpty(State)
               => processNextReqEvent(State, in).busStateNext = "READ"
            /\ ( /\ ReadsEmpty(State)
                 /\ nvmWriteQueueSize + dramFillQueueSize = 0
                 /\ processNextReqEvent(State, in).busStateNext = "WRITE" )
               => aboveHigh(State, WriteVolume - 1)

\* while draining, the bus has been turned to WRITE with both read queues
\* empty and one fill or one backing write queued, below the high threshold
C27_Witness ==
    /\ Running
    /\ drainState = "Draining"
    /\ busState = "READ"
    /\ busStateNext = "WRITE"
    /\ totalReadQueueSize = 0
    /\ nvmReadQueueSize = 0
    /\ nvmWriteQueueSize + dramFillQueueSize = 1
    /\ totalWriteQueueSize = 0

\* a read is issued by the pass with the write volume above the high
\* threshold
ReadAboveHigh(s, in) ==
    /\ PassIn(s, in, "READ")
    /\ ~NoReadCandidate(s, in)
    /\ 100 * writeVolume(s) > s.writeBufferSize * write_high_thresh_perc

\* the read issued is the last one queued and every queued write is in
\* writeQueue: the pass goes on to the tag check of a write
ProbeFollows(s) ==
    /\ s.totalReadQueueSize + s.nvmReadQueueSize = 1
    /\ s.nvmWriteQueueSize = 0
    /\ s.dramFillQueueSize = 0

\* C28 as stated: a pass in READ that issues a read with the write volume
\* above the high threshold marks WRITE as the next bus state, the bus
\* state of the pass itself staying READ.
C28_HighTurnsToWrite ==
    PassDue =>
      \A in \in SchedInputs(State) :
         ReadAboveHigh(State, in)
         => /\ processNextReqEvent(State, in).busStateNext = "WRITE"
            /\ processNextReqEvent(State, in).busState = "READ"

\* C28 as the code has it: the pass marks WRITE as the next bus state
\* unless the backing medium's write response queue is full with all writes
\* its own, or the pass goes on to the tag check of a write, after which it
\* marks WRITE only if the write volume is still above the high threshold;
\* the bus state of the pass stays READ, and every pass starts by taking
\* the next bus state as its bus state.
C28_HighTurnsUnlessBlocked ==
    PassDue =>
      \A in \in SchedInputs(State) :
         /\ processNextReqEvent(State, in).busState = busStateNext
         /\ ReadAboveHigh(State, in)
            => /\ (~in.blocked /\ ~ProbeFollows(State))
                  => processNextReqEvent(State, in).busStateNext = "WRITE"
               /\ in.blocked
                  => processNextReqEvent(State, in).busStateNext = "READ"
               /\ ( /\ ProbeFollows(State)
                    /\ processNextReqEvent(State, in).busStateNext = "WRITE" )
                  => 100 * (WriteVolume - 1)
                        > writeBufferSize * write_high_thresh_perc

\* WRITE is marked with a read issued and the write volume above the high
\* threshold; the bus state is still READ
C28_Witness ==
    /\ Running
    /\ busState = "READ"
    /\ busStateNext = "WRITE"
    /\ respQueue # << >>
    /\ 100 * WriteVolume > writeBufferSize * write_high_thresh_perc

\* the pass issues a packet of nvmWriteQueue
IssuesBackingWrite(s, in) ==
    QSize(processNextReqEvent(s, in).nvmWriteQueue) < QSize(s.nvmWriteQueue)

\* chooseNextDC finds a packet of dramFillQueue
FillSelectable(s, in) ==
    scanQueue(s.dramFillQueue, s.qos_priorities - 1, in.rdy, in.pick).found

IssuesWrite(s, in) ==
    \/ IssuesBackingWrite(s, in)
    \/ QSize(processNextReqEvent(s, in).dramFillQueue)
          < QSize(s.dramFillQueue)

\* r being the controller after the write is issued: the write side is
\* empty, or the write volume is below the low threshold by the margin
\* while not draining
WritesDone(r) ==
    \/ r.totalWriteQueueSize + r.nvmWriteQueueSize + r.dramFillQueueSize = 0
    \/ /\ 100 * (r.totalWriteQueueSize + r.nvmWriteQueueSize
                   + r.dramFillQueueSize + r.minWritesPerSwitch)
              < r.writeBufferSize * write_low_thresh_perc
       /\ r.drainState # "Draining"

\* C30 as stated: a pass in WRITE that issues a write leaves READ as the
\* next bus state if and only if the write side is empty, or the write
\* volume is below the low threshold by the margin minWritesPerSwitch while
\* not draining, or reads wait in either read queue and at least
\* minWritesPerSwitch writes were issued since the last switch; otherwise
\* the next bus state stays WRITE.
C30_BackToRead ==
    PassDue =>
      \A in \in SchedInputs(State) :
         (PassIn(State, in, "WRITE") /\ IssuesWrite(State, in))
         => ( processNextReqEvent(State, in).busStateNext = "READ"
              <=> \/ WritesDone(processNextReqEvent(State, in))
                  \/ /\ totalReadQueueSize + nvmReadQueueSize > 0
                     /\ processNextReqEvent(State, in).writesThisTime
                           >= minWritesPerSwitch )

\* C30 as the code has it: the reads that count are those of the fast-tier
\* read queue, and with such reads waiting the backing medium's full write
\* response queue, all writes being its own, turns the bus as well.
C30_BackToReadFastReads ==
    PassDue =>
      \A in \in SchedInputs(State) :
         (PassIn(State, in, "WRITE") /\ IssuesWrite(State, in))
         => /\ processNextReqEvent(State, in).busStateNext
                  \in {"READ", "WRITE"}
            /\ processNextReqEvent(State, in).busStateNext = "READ"
               <=> \/ WritesDone(processNextReqEvent(State, in))
                   \/ /\ totalReadQueueSize > 0
                      /\ processNextReqEvent(State, in).writesThisTime
                            >= minWritesPerSwitch
                   \/ totalReadQueueSize > 0 /\ in.blocked

\* a pass in WRITE is about to issue a write that leaves writes queued,
\* with reads waiting in the backing-read queue only
C30_Witness ==
    /\ PassDue
    /\ totalReadQueueSize = 0
    /\ nvmReadQueueSize > 0
    /\ \E in \in SchedInputs(State) :
          /\ PassIn(State, in, "WRITE")
          /\ IssuesWrite(State, in)
          /\ ~WritesDone(processNextReqEvent(State, in))

-----------------------------------------------------------------------------
(* Fills waiting for their backing read *)

\* the packet of dramFillQueue that the loop over its buckets selects
ChosenFill(s, in) ==
    LET f == scanQueue(s.dramFillQueue, s.qos_priorities - 1, in.rdy, in.pick)
    IN s.dramFillQueue[f.prio][f.pos]

\* lines 2150-2158: the pass in WRITE selects a fill that waits for its
\* backing read, and returns
RefusesFill(s, in) ==
    /\ PassIn(s, in, "WRITE")
    /\ FillSelectable(s, in)
    /\ ChosenFill(s, in).is_waiting_for_nvm_read

\* another fill the pass could issue instead: one on a ready rank that does
\* not wait for a backing read
OtherSelectable(s, in) ==
    \E pr \in DOMAIN s.dramFillQueue :
       \E i \in 1 .. Len(s.dramFillQueue[pr]) :
          /\ packetReady(s.dramFillQueue[pr][i], in.rdy)
          /\ ~s.dramFillQueue[pr][i].is_waiting_for_nvm_read

\* the fills of s that wait for their backing read
WaitingFills(s) ==
    UNION { { s.dramFillQueue[pr][i].addr :
                i \in { j \in 1 .. Len(s.dramFillQueue[pr]) :
                          s.dramFillQueue[pr][j].is_waiting_for_nvm_read } } :
            pr \in DOMAIN s.dramFillQueue }

\* C31: a pass never takes a fill that waits for its backing read out of
\* dramFillQueue, and a pass in WRITE that selects such a fill returns
\* without issuing only if dramFillQueue holds no fill on a ready rank
\* that is free to go.
C31_RefusesOnlyLoneFill ==
    PassDue =>
      \A in \in SchedInputs(State) :
         /\ WaitingFills(State)
               \subseteq WaitingFills(processNextReqEvent(State, in))
         /\ RefusesFill(State, in) => ~OtherSelectable(State, in)

-----------------------------------------------------------------------------
(* Issued packets and the completion queue *)

\* the packets a pass from s to r takes out of readQueue, nvmReadQueue and
\* writeQueue
ReadsIssued(s, r) ==
    (QSize(s.readQueue) - QSize(r.readQueue))
    + (QSize(s.nvmReadQueue) - QSize(r.nvmReadQueue))
    + (QSize(s.writeQueue) - QSize(r.writeQueue))

\* the packets a pass from s to r takes out of dramFillQueue and
\* nvmWriteQueue
WritesIssued(s, r) ==
    (QSize(s.dramFillQueue) - QSize(r.dramFillQueue))
    + (QSize(s.nvmWriteQueue) - QSize(r.nvmWriteQueue))

-----------------------------------------------------------------------------
(* Deferred completions *)

\* every packet of dramFillQueue waits for its backing read, and the queue
\* has no room for another one
FillsFullAndWaiting(s) ==
    /\ s.dramFillQueueSize >= maxDramFillQueueSize
    /\ \A pr \in DOMAIN s.dramFillQueue :
          \A i \in 1 .. Len(s.dramFillQueue[pr]) :
             s.dramFillQueue[pr][i].is_waiting_for_nvm_read

\* lines 1174-1181: whatever the media answer, the completion pass on the
\* top of respQueue defers, leaving respQueue as it is
HeadDefers(s) ==
    /\ s.respQueue # << >>
    /\ Head(s.respQueue).isDram
    /\ Head(s.respQueue).readyTime <= s.curTick
    /\ \A in \in RespInputs(s) :
          processRespondEvent(s, in).respQueue = s.respQueue

\* the top of respQueue cannot be routed before a fill leaves dramFillQueue,
\* and no fill can leave before its backing read, behind the top, completes
HeadStuck ==
    /\ Running
    /\ HeadDefers(State)
    /\ FillsFullAndWaiting(State)

\* C34: the controller never reaches a state where the top of respQueue is
\* deferred for a full dramFillQueue that holds only fills waiting for
\* backing reads, which complete behind that top.
C34_HeadNeverStuck == ~HeadStuck

-----------------------------------------------------------------------------
(* Priority buckets *)

\* the buckets of q that hold a packet on a ready rank
ReadyIn(q, rdy) ==
    { pr \in DOMAIN q : \E i \in 1 .. Len(q[pr]) : packetReady(q[pr][i], rdy) }

\* the buckets of q that a pass leaving r has taken a packet from
TakenFrom(q, r) == { pr \in DOMAIN q : Len(r[pr]) < Len(q[pr]) }

\* the highest bucket of a non-empty set of buckets
Highest(ps) == CHOOSE p \in ps : \A o \in ps : o <= p

\* C35: a pass in READ in which no assertion fails takes a backing read from
\* the highest bucket of nvmReadQueue that holds a ready packet, and, if
\* nvmReadQueue holds no ready packet, a read from the highest bucket of
\* readQueue that holds one, whether or not the buckets above are empty.
C35_HighestReadyBucket ==
    PassDue =>
      \A in \in SchedInputs(State) :
         LET r == processNextReqEvent(State, in)
             nvm == ReadyIn(nvmReadQueue, in.rdy)
             fast == ReadyIn(readQueue, in.rdy)
         IN (PassIn(State, in, "READ") /\ r.panic = "none") =>
              /\ nvm # {} =>
                   TakenFrom(nvmReadQueue, r.nvmReadQueue) = {Highest(nvm)}
              /\ (nvm = {} /\ fast # {}) =>
                   TakenFrom(readQueue, r.readQueue) = {Highest(fast)}

-----------------------------------------------------------------------------
(* Command bus windows: two-command sequences *)

\* the slots a verifyMultiCmd call made now would get
MultiCmd(cmd_tick, split) ==
    verifyMultiCmd(State, cmd_tick, maxCommandsPerWindow, split)

\* r being the controller after the call: one slot more in the window of
\* each command, and none anywhere else
OneSlotEach(r) ==
    \A t \in DOMAIN r.burstTicks :
       burstCount(r.burstTicks, t)
         = burstCount(burstTicks, t)
             + (IF t = r.lastCmd.first THEN 1 ELSE 0)
             + (IF t = r.lastCmd.second THEN 1 ELSE 0)

\* the first command is not after the second, and the call returns no time
\* before cmd_tick
InOrder(r, cmd_tick) ==
    /\ r.lastCmd.first <= r.lastCmd.second
    /\ r.lastCmd.cmd_at >= cmd_tick

-----------------------------------------------------------------------------
(* Completions of backing reads *)

\* the packets of dramFillQueue with the address of mem_pkt that wait for
\* their backing read, as <<bucket, position>>
WaitingFor(s, mem_pkt) ==
    UNION { { << pr, i >> :
                i \in { j \in 1 .. Len(s.dramFillQueue[pr]) :
                          /\ s.dramFillQueue[pr][j].addr = mem_pkt.addr
                          /\ s.dramFillQueue[pr][j].is_waiting_for_nvm_read } } :
            pr \in DOMAIN s.dramFillQueue }

\* a completion pass is due with a backing read at the top of respQueue
BackingReadDue ==
    /\ Running
    /\ respondEvent = curTick
    /\ respQueue # << >>
    /\ ~Head(respQueue).isDram

\* C37: the completion pass of a backing read finds one packet of
\* dramFillQueue with its address that waits for it, clears that packet's
\* flag with no assertion of updateMemPktInDRAMFillQueue failing, and
\* leaves the tag store as it is.
C37_CompletionFindsFill ==
    BackingReadDue =>
      /\ Cardinality(WaitingFor(State, Head(respQueue))) = 1
      /\ \A in \in RespInputs(State) :
            LET r == processRespondEvent(State, in)
            IN /\ r.panic = "none"
               /\ WaitingFor(r, Head(respQueue)) = {}
               /\ r.tagStoreDC = tagStoreDC

-----------------------------------------------------------------------------
(* Merged writes *)

\* the burst-aligned addresses of the packets of writeQueue
WriteQueueAddrs(q) ==
    UNION { { burstAlign(q[pr][i].addr) : i \in 1 .. Len(q[pr]) } :
            pr \in DOMAIN q }

\* the next request is a write of one burst whose burst-aligned address is in
\* isInWriteQueue, and writeQueue has room for it
MergeDue ==
    /\ Running
    /\ incoming # << >>
    /\ Head(incoming).isWrite
    /\ (Head(incoming).addr % burst_size) + Head(incoming).size <= burst_size
    /\ burstAlign(Head(incoming).addr) \in isInWriteQueue
    /\ ~writeQueueFull(State, 1)

\* C38: isInWriteQueue holds the burst-aligned addresses of the packets of
\* writeQueue and nothing else, no two packets of writeQueue share one, and
\* a write burst whose burst-aligned address is in the set leaves every
\* queue and the set as they are.
C38_WriteSetMatches ==
    Running =>
      /\ isInWriteQueue = WriteQueueAddrs(writeQueue)
      /\ Cardinality(isInWriteQueue) = QSize(writeQueue)
      /\ MergeDue =>
           LET r == recvTimingReq(State, Head(incoming))
           IN /\ r.panic = "none"
              /\ r.writeQueue = writeQueue
              /\ r.isInWriteQueue = isInWriteQueue
              /\ r.readQueue = readQueue
              /\ r.nvmReadQueue = nvmReadQueue
              /\ r.nvmWriteQueue = nvmWriteQueue
              /\ r.dramFillQueue = dramFillQueue
              /\ r.respQueue = respQueue

\* a write is about to be merged into a packet of writeQueue
C38_Witness == MergeDue /\ QSize(writeQueue) > 0

-----------------------------------------------------------------------------
(* Assertions after the pop *)

\* C39: no completion pass fails an assertion of lines 1243-1244: when a
\* pass pops respQueue and an entry is left, the readyTime of the new top is
\* not before curTick and respondEvent is not scheduled.
C39_PopAssertsHold ==
    (Running /\ respondEvent = curTick /\ respQueue # << >>) =>
      \A in \in RespInputs(State) :
         /\ processRespondEvent(State, in).panic
               # "processRespondEvent_readyTime"
         /\ processRespondEvent(State, in).panic
               # "processRespondEvent_scheduled"

-----------------------------------------------------------------------------
(* Hits on lines that are being filled *)

\* C40: no completion pass finalizes a read as a Hit (dramHit set by
\* handleHit and the requestor answered from the tag check) while
\* dramFillQueue holds a fill of the same line that still waits for its
\* backing read.
C40_NoHitWhileFillWaits ==
    (Running /\ respondEvent = curTick /\ respQueue # << >>) =>
      \A in \in RespInputs(State) :
         (/\ Head(respQueue).isDram
          /\ Head(respQueue).isRead
          /\ ~Head(respQueue).read_before_write
          /\ Head(respQueue).addr \in WaitingFills(State))
           => processRespondEvent(State, in).lastProbe.class # "Hit"

====
